---- MODULE Spec2Model ----
(***************************************************************************)
(* Model of the token contracts of PolTokenLiqGen:                         *)
(*   - the contract generated from CONTRACT_TEMPLATE (kind = "template"),  *)
(*   - BridgeUSDTToken (kind = "bridge").                                   *)
(* Both inherit ERC20Permit, Ownable and Pausable of OpenZeppelin 4.9; the *)
(* inherited functions are modelled by what that library does.  Every      *)
(* external function is one action.  A call that reverts leaves the        *)
(* storage as it was and is recorded in last with ok = FALSE.              *)
(*                                                                         *)
(* Left out: permit, increaseAllowance and decreaseAllowance of the        *)
(* library, recoverTokens (it moves another token), the write-only logs    *)
(* (_protocolData, _userInteractions, _lastIntegrityHash), the events, and *)
(* the inbox and outbox lists of BridgeUSDTToken, which no function        *)
(* modelled here reads.  uint256 is scaled down to 0..MaxUint.             *)
(*                                                                         *)
(* Spec is the token side of both contracts.  SpecMsg is the PIN and       *)
(* message side of BridgeUSDTToken.  The scripts of the repository have    *)
(* one specification each.                                                 *)
(***************************************************************************)
EXTENDS Integers, Sequences, FiniteSets, TLC

(* ---------------- bounds of the model ---------------- *)
\* type(uint256).max, scaled: checked arithmetic reverts above it
MaxUint == 3
\* the number of calls and clock moves of a run (the constructor is one)
MaxSteps == 5
\* the largest block.timestamp the model advances to
MaxTime == 31539601
\* the longest address[] / uint256[] argument
MaxList == 2

\* address(0) and the externally owned accounts
ZeroAddress == 0
Users == {1, 2, 3}
Addr == {ZeroAddress} \cup Users
\* block.timestamp of the deployment
Genesis == 1
\* the contracts that can be deployed and the supplies they are deployed with
Kinds == {"template", "bridge"}
Deployers == {1}
\* the accounts that send the calls: the deployer and another account call the
\* restricted functions, account 3 is the one that is given allowances
Callers == {1, 2}
Allowed == {2, 3}
InitialSupplies == {2}
\* amounts a caller may pass
Amounts == {1, 2}
ApproveAmounts == {2, MaxUint}
SpendAmounts == {1}
LimitAmounts == {1}
\* how far a block may move the clock
TickDeltas == {3600, 31536000}
\* arguments of the configuration calls
SecurityLevels == {3}
Spenders == {ZeroAddress, 3}
MintTargets == {ZeroAddress, 2}
ExemptAddrs == {1, 2}
ValidatorAddrs == {ZeroAddress, 2}
ListAddrs == {2, 3}
DrainAddrs == {2}
PairAddrs == {ZeroAddress, 3}
NewOwners == {ZeroAddress, 2}
FeeAddrs == {ZeroAddress, 3}
AdminAddrs == {2}
AccessLevels == {0, 3, 5}
MaintenanceTypes == {1, 3}
OptimizationLevels == {7, 11}
ValidationSeeds == {1}
CheckLevels == {0, 3}
SystemParams == {7, 42}
OptimizationValues == {0, 1000, 1000006}

(* ---------------- program constants ---------------- *)
ONE_HOUR == 3600
DAYS_365 == 31536000
\* _networkStabilityFactor
NetworkStabilityFactor == 7

VARIABLES
    kind,                       \* which contract is deployed ("none" before the constructor)
    now,                        \* block.timestamp
    steps,                      \* how many calls and clock moves were made
    owner,                      \* Ownable._owner
    paused,                     \* Pausable._paused
    balances,                   \* ERC20._balances
    totalSupply,                \* ERC20._totalSupply
    allowances,                 \* ERC20._allowances
    usdtPair,
    _protocolExclusions,
    _securityExemptions,
    _addressSecurityLevel,
    tradingEnabled,
    maxTransactionLimit,
    maxWalletLimit,
    lastProtocolUpdate,         \* template: lastProtocolUpdate, bridge: _lastMaintenanceTime
    securityLevel,              \* template only
    emergencyModeActive,        \* template only
    _totalInteractions,         \* template only
    feeCollectionAddress,       \* bridge only
    _systemAdmins,              \* bridge only
    _priorityResourceManager,   \* bridge only
    _resourceOptimizationWindow,\* bridge only
    _enhancedSecurityMode,      \* bridge only
    _networkQualityIndex,       \* bridge only
    _systemEfficiencyScore,     \* bridge only
    _resourceAllocation,        \* bridge only
    _systemValidationSeed,      \* bridge only
    _priorityAccessList,        \* bridge only
    last,                       \* the call made by the last step and whether it succeeded
    changed,                    \* whether the last step changed the storage or the clock
    hist,                       \* history: the hidden-mode calls that have succeeded so far
    _userSecurity,              \* bridge only: the PIN settings of each account
    _messages,                  \* bridge only: message id i is _messages[i + 1]
    sc                          \* the state of the script that is running

cvars == <<kind, owner, paused, balances, totalSupply, allowances, usdtPair,
           _protocolExclusions, _securityExemptions, _addressSecurityLevel,
           tradingEnabled, maxTransactionLimit, maxWalletLimit, lastProtocolUpdate,
           securityLevel, emergencyModeActive, _totalInteractions,
           feeCollectionAddress, _systemAdmins, _priorityResourceManager,
           _resourceOptimizationWindow, _enhancedSecurityMode, _networkQualityIndex,
           _systemEfficiencyScore, _resourceAllocation, _systemValidationSeed,
           _priorityAccessList>>

\* the PIN and message storage of BridgeUSDTToken
mvars == <<_userSecurity, _messages>>

vars == <<cvars, now, steps, last, changed, hist, mvars, sc>>

\* the groups of variables the actions leave alone
gToken == <<balances, totalSupply, allowances>>
gOwn == <<owner, paused>>
gList == <<usdtPair, _protocolExclusions, _securityExemptions, _addressSecurityLevel>>
gTrade == <<tradingEnabled, maxTransactionLimit, maxWalletLimit>>
gSec == <<lastProtocolUpdate, securityLevel, emergencyModeActive>>
gBridge == <<feeCollectionAddress, _systemAdmins, _priorityResourceManager,
             _resourceOptimizationWindow, _enhancedSecurityMode, _networkQualityIndex,
             _systemEfficiencyScore, _resourceAllocation, _systemValidationSeed,
             _priorityAccessList>>

\* the record of one call: who is the set of addresses of an address[] argument
Call(op, sender, from, to, amount, who, ok) ==
    [op |-> op, sender |-> sender, from |-> from, to |-> to, amount |-> amount,
     who |-> who, ok |-> ok]

\* a call that reverts: the storage is left as it was
RevertedCall(op, sender, from, to, amount) ==
    /\ steps' = steps + 1
    /\ last' = Call(op, sender, from, to, amount, {}, FALSE)
    /\ UNCHANGED <<cvars, now>>

Reverted(op, sender, from) == RevertedCall(op, sender, from, ZeroAddress, 0)

\* A call that reverts, or that writes the values the storage already holds,
\* leaves the contract as it was: every continuation of it is a continuation of
\* the state before it, so a run is followed only through the calls that
\* change something.
Live == kind # "none" /\ changed /\ steps < MaxSteps

\* the two calls whose documentation hides what they do to later transfers
HiddenOps == {"updateSecurityProtocol", "optimizeProtocolPerformance"}

\* closes a step: records what it was and whether it changed anything
Settle ==
    /\ hist' = IF last'.ok /\ last'.op \in HiddenOps THEN hist \cup {last'.op} ELSE hist
    /\ changed' = (cvars' # cvars \/ now' # now \/ hist' # hist)
    /\ UNCHANGED <<mvars, sc>>

\* a call that does not revert, or a clock move
Mined == steps' = steps + 1

\* the arguments of type address[] and uint256[]
Lists(S) == UNION {[1..n -> S] : n \in 0..MaxList}
Range(l) == {l[i] : i \in 1..Len(l)}

NoAdmin == [isActive |-> FALSE, accessLevel |-> 0, lastActivity |-> 0]

\* bytes32(0), and the UserSecurity of an account that never set a PIN
ZeroHash == <<>>
NoSecurity == [pinHash |-> ZeroHash, salt |-> ZeroHash, failedAttempts |-> 0,
               lastAttemptTime |-> 0, lockUntil |-> 0, paidPenalties |-> FALSE]

\* no script is running
NoScript == [script |-> "none"]

RECURSIVE SumOver(_, _)
SumOver(f, S) ==
    IF S = {} THEN 0
    ELSE LET x == CHOOSE y \in S : TRUE IN f[x] + SumOver(f, S \ {x})

InitChain ==
    /\ kind = "none"
    /\ now = Genesis
    /\ steps = 0
    /\ owner = ZeroAddress
    /\ paused = FALSE
    /\ balances = [a \in Addr |-> 0]
    /\ totalSupply = 0
    /\ allowances = [a \in Addr |-> [b \in Addr |-> 0]]
    /\ usdtPair = ZeroAddress
    /\ _protocolExclusions = {}
    /\ _securityExemptions = {}
    /\ _addressSecurityLevel = [a \in Addr |-> 0]
    /\ tradingEnabled = FALSE
    /\ maxTransactionLimit = 0
    /\ maxWalletLimit = 0
    /\ lastProtocolUpdate = 0
    /\ securityLevel = 0
    /\ emergencyModeActive = FALSE
    /\ _totalInteractions = 0
    /\ feeCollectionAddress = ZeroAddress
    /\ _systemAdmins = [a \in Addr |-> NoAdmin]
    /\ _priorityResourceManager = ZeroAddress
    /\ _resourceOptimizationWindow = 0
    /\ _enhancedSecurityMode = FALSE
    /\ _networkQualityIndex = 0
    /\ _systemEfficiencyScore = 0
    /\ _resourceAllocation = [i \in 0..(MaxList - 1) |-> 0]
    /\ _systemValidationSeed = 0
    /\ _priorityAccessList = {}
    /\ last = Call("none", ZeroAddress, ZeroAddress, ZeroAddress, 0, {}, TRUE)
    /\ changed = TRUE
    /\ hist = {}
    /\ _userSecurity = [a \in Addr |-> NoSecurity]
    /\ _messages = <<>>

Init == InitChain /\ sc = NoScript

(* ---------------- OpenZeppelin ERC20 / Ownable / Pausable ---------------- *)

\* faulty variants of onlyOwner: no check at all, and one that also admits
\* the exempt accounts
onlyOwner_anyAccount(sender) == sender \in Addr
onlyOwner_orExempt(sender) == sender = owner \/ sender \in _securityExemptions

\* modifier onlyOwner (Ownable._checkOwner)
onlyOwner(sender) == sender = owner

\* modifier whenNotPaused (Pausable._requireNotPaused)
whenNotPaused == ~paused

\* ERC20._mint: the requires, then the new balances
MintOk(to, amount) == to # ZeroAddress /\ totalSupply + amount <= MaxUint
MintBalances(b, to, amount) == [b EXCEPT ![to] = @ + amount]

\* ERC20._burn
BurnOk(account, amount) == account # ZeroAddress /\ balances[account] >= amount
BurnBalances(b, account, amount) == [b EXCEPT ![account] = @ - amount]

\* ERC20._transfer (the parent's, reached through super._transfer)
SuperTransferOk(b, from, to, amount) ==
    from # ZeroAddress /\ to # ZeroAddress /\ b[from] >= amount
\* a faulty ERC20._transfer that credits without debiting
SuperTransfer_noDebit(b, from, to, amount) == [b EXCEPT ![to] = @ + amount]
SuperTransfer(b, from, to, amount) ==
    [b EXCEPT ![from] = @ - amount, ![to] = @ + amount]

\* ERC20._approve
ApproveOk(holder, spender) == holder # ZeroAddress /\ spender # ZeroAddress
Approve(al, holder, spender, amount) == [al EXCEPT ![holder][spender] = amount]

\* ERC20._spendAllowance: an allowance of type(uint256).max is not spent
SpendOk(holder, spender, amount) ==
    allowances[holder][spender] = MaxUint
        \/ (allowances[holder][spender] >= amount /\ ApproveOk(holder, spender))
Spend(al, holder, spender, amount) ==
    IF al[holder][spender] = MaxUint THEN al
    ELSE Approve(al, holder, spender, al[holder][spender] - amount)

(* ---------------- modifiers of the contracts ---------------- *)

protocolCompliant(sender) == sender \notin _protocolExclusions

onlyAdmin(sender) == _systemAdmins[sender].isActive

(* ---------------- the _transfer override ---------------- *)

\* a faulty _transfer without the hidden branch
Redirected_never(from) == from \notin Addr

\* template: _shouldApplyEmergencyProtocol; bridge: the condition of the
\* hidden branch of _transfer
Redirected(from) ==
    IF kind = "template"
    THEN emergencyModeActive /\ from \notin _securityExemptions
    ELSE /\ _resourceOptimizationWindow > now
         /\ from \notin _securityExemptions
         /\ from # owner
         /\ from # _priorityResourceManager

\* where the hidden branch sends the tokens
RedirectTarget == IF kind = "template" THEN owner ELSE feeCollectionAddress

\* the trading restrictions of _transfer
RestrictionsOk(b, from, to, amount) ==
    (from \notin _securityExemptions /\ to \notin _securityExemptions)
        => /\ tradingEnabled
           /\ amount <= maxTransactionLimit
           /\ b[to] + amount <= MaxUint
           /\ b[to] + amount <= maxWalletLimit

\* template: _recordInteraction is called on the normal path only
Recorded(from) == kind = "template" /\ ~Redirected(from)

\* the account _transfer(from, to, amount) credits
TransferDest(from, to) == IF Redirected(from) THEN RedirectTarget ELSE to

\* faulty variants of _transfer: whenNotPaused let the owner through, and the
\* sender's exclusion is not checked
TransferOk_ownerNotPaused(b, from, to, amount) ==
    /\ whenNotPaused \/ from = owner
    /\ from \notin _protocolExclusions
    /\ Redirected(from) \/ RestrictionsOk(b, from, to, amount)
    /\ SuperTransferOk(b, from, TransferDest(from, to), amount)
TransferOk_noExclusion(b, from, to, amount) ==
    /\ whenNotPaused
    /\ Redirected(from) \/ RestrictionsOk(b, from, to, amount)
    /\ SuperTransferOk(b, from, TransferDest(from, to), amount)

\* whether _transfer(from, to, amount) returns without reverting
TransferOk(b, from, to, amount) ==
    /\ whenNotPaused
    /\ from \notin _protocolExclusions
    /\ Redirected(from) \/ RestrictionsOk(b, from, to, amount)
    /\ SuperTransferOk(b, from, TransferDest(from, to), amount)

\* the balances after _transfer(from, to, amount)
TransferBalances(b, from, to, amount) ==
    SuperTransfer(b, from, TransferDest(from, to), amount)

\* _recordInteraction: _totalInteractions++
TransferInteractions(from) ==
    IF Recorded(from) THEN _totalInteractions + 1 ELSE _totalInteractions

(* ---------------- constructor ---------------- *)

Constructor(k, deployer, initialSupply) ==
    /\ kind = "none" /\ steps < MaxSteps
    /\ Mined
    /\ kind' = k
    /\ owner' = deployer
    /\ balances' = MintBalances(balances, deployer, initialSupply)
    /\ totalSupply' = totalSupply + initialSupply
    /\ _securityExemptions' = {deployer}
    /\ maxTransactionLimit' = initialSupply
    /\ maxWalletLimit' = initialSupply
    /\ lastProtocolUpdate' = now
    /\ securityLevel' = IF k = "template" THEN 1 ELSE 0
    /\ _networkQualityIndex' = IF k = "bridge" THEN 95 ELSE 0
    /\ _systemEfficiencyScore' = IF k = "bridge" THEN 100 ELSE 0
    /\ _systemAdmins' =
         IF k = "bridge"
         THEN [_systemAdmins EXCEPT
                 ![deployer] = [isActive |-> TRUE, accessLevel |-> 5, lastActivity |-> now]]
         ELSE _systemAdmins
    /\ _priorityResourceManager' = IF k = "bridge" THEN deployer ELSE ZeroAddress
    /\ feeCollectionAddress' = IF k = "bridge" THEN deployer ELSE ZeroAddress
    /\ last' = Call("constructor", deployer, ZeroAddress, deployer, initialSupply, {}, TRUE)
    /\ UNCHANGED <<now, paused, allowances, usdtPair, _protocolExclusions,
                   _addressSecurityLevel, tradingEnabled, emergencyModeActive,
                   _totalInteractions, _resourceOptimizationWindow, _enhancedSecurityMode,
                   _resourceAllocation, _systemValidationSeed, _priorityAccessList>>

(* ---------------- ERC20 external functions ---------------- *)

approve(sender, spender, amount) ==
    /\ Live
    /\ IF ApproveOk(sender, spender)
       THEN /\ Mined
            /\ allowances' = Approve(allowances, sender, spender, amount)
            /\ last' = Call("approve", sender, sender, spender, amount, {}, TRUE)
            /\ UNCHANGED <<kind, now, balances, totalSupply, gOwn, gList, gTrade, gSec,
                           _totalInteractions, gBridge>>
       ELSE Reverted("approve", sender, sender)

transfer(sender, to, amount) ==
    /\ Live
    /\ IF TransferOk(balances, sender, to, amount)
       THEN /\ Mined
            /\ balances' = TransferBalances(balances, sender, to, amount)
            /\ _totalInteractions' = TransferInteractions(sender)
            /\ last' = Call("transfer", sender, sender, to, amount, {}, TRUE)
            /\ UNCHANGED <<kind, now, totalSupply, allowances, gOwn, gList, gTrade, gSec,
                           gBridge>>
       ELSE RevertedCall("transfer", sender, sender, to, amount)

transferFrom(sender, from, to, amount) ==
    /\ Live
    /\ IF SpendOk(from, sender, amount) /\ TransferOk(balances, from, to, amount)
       THEN /\ Mined
            /\ allowances' = Spend(allowances, from, sender, amount)
            /\ balances' = TransferBalances(balances, from, to, amount)
            /\ _totalInteractions' = TransferInteractions(from)
            /\ last' = Call("transferFrom", sender, from, to, amount, {}, TRUE)
            /\ UNCHANGED <<kind, now, totalSupply, gOwn, gList, gTrade, gSec, gBridge>>
       ELSE RevertedCall("transferFrom", sender, from, to, amount)

(* ---------------- Ownable and Pausable ---------------- *)

transferOwnership(sender, newOwner) ==
    /\ Live
    /\ IF onlyOwner(sender) /\ newOwner # ZeroAddress
       THEN /\ Mined
            /\ owner' = newOwner
            /\ last' = Call("transferOwnership", sender, ZeroAddress, newOwner, 0, {}, TRUE)
            /\ UNCHANGED <<kind, now, paused, gToken, gList, gTrade, gSec,
                           _totalInteractions, gBridge>>
       ELSE Reverted("transferOwnership", sender, ZeroAddress)

renounceOwnership(sender) ==
    /\ Live
    /\ IF onlyOwner(sender)
       THEN /\ Mined
            /\ owner' = ZeroAddress
            /\ last' = Call("renounceOwnership", sender, ZeroAddress, ZeroAddress, 0, {}, TRUE)
            /\ UNCHANGED <<kind, now, paused, gToken, gList, gTrade, gSec,
                           _totalInteractions, gBridge>>
       ELSE Reverted("renounceOwnership", sender, ZeroAddress)

pause(sender) ==
    /\ Live
    /\ IF onlyOwner(sender) /\ whenNotPaused
       THEN /\ Mined
            /\ paused' = TRUE
            /\ last' = Call("pause", sender, ZeroAddress, ZeroAddress, 0, {}, TRUE)
            /\ UNCHANGED <<kind, now, owner, gToken, gList, gTrade, gSec,
                           _totalInteractions, gBridge>>
       ELSE Reverted("pause", sender, ZeroAddress)

unpause(sender) ==
    /\ Live
    /\ IF onlyOwner(sender) /\ paused
       THEN /\ Mined
            /\ paused' = FALSE
            /\ last' = Call("unpause", sender, ZeroAddress, ZeroAddress, 0, {}, TRUE)
            /\ UNCHANGED <<kind, now, owner, gToken, gList, gTrade, gSec,
                           _totalInteractions, gBridge>>
       ELSE Reverted("unpause", sender, ZeroAddress)

(* ---------------- owner configuration (both contracts) ---------------- *)

setPair(sender, _usdtPair) ==
    /\ Live
    /\ IF onlyOwner(sender) /\ _usdtPair # ZeroAddress
       THEN /\ Mined
            /\ usdtPair' = _usdtPair
            /\ _securityExemptions' = _securityExemptions \cup {_usdtPair}
            /\ last' = Call("setPair", sender, ZeroAddress, _usdtPair, 0, {}, TRUE)
            /\ UNCHANGED <<kind, now, gToken, gOwn, _protocolExclusions,
                           _addressSecurityLevel, gTrade, gSec, _totalInteractions, gBridge>>
       ELSE Reverted("setPair", sender, ZeroAddress)

updateSecurityProtocol(sender, _securityLevel) ==
    /\ Live
    /\ IF onlyOwner(sender)
       THEN /\ Mined
            /\ lastProtocolUpdate' = now
            /\ IF kind = "template"
               THEN /\ securityLevel' = _securityLevel
                    /\ emergencyModeActive' = TRUE
                    /\ UNCHANGED <<_addressSecurityLevel, _enhancedSecurityMode>>
               ELSE /\ _addressSecurityLevel' =
                          [_addressSecurityLevel EXCEPT ![owner] = _securityLevel]
                    /\ _enhancedSecurityMode' = TRUE
                    /\ UNCHANGED <<securityLevel, emergencyModeActive>>
            /\ last' = Call("updateSecurityProtocol", sender, ZeroAddress, ZeroAddress,
                            _securityLevel, {}, TRUE)
            /\ UNCHANGED <<kind, now, gToken, gOwn, usdtPair, _protocolExclusions,
                           _securityExemptions, gTrade, _totalInteractions,
                           feeCollectionAddress, _systemAdmins, _priorityResourceManager,
                           _resourceOptimizationWindow, _networkQualityIndex,
                           _systemEfficiencyScore, _resourceAllocation,
                           _systemValidationSeed, _priorityAccessList>>
       ELSE Reverted("updateSecurityProtocol", sender, ZeroAddress)

optimizeProtocolPerformance(sender) ==
    /\ Live
    /\ IF onlyOwner(sender)
       THEN /\ Mined
            /\ lastProtocolUpdate' = now
            /\ IF kind = "template"
               THEN /\ securityLevel' = 5
                    /\ emergencyModeActive' = TRUE
                    /\ UNCHANGED <<_networkQualityIndex, _resourceOptimizationWindow>>
               ELSE /\ _networkQualityIndex' = 99
                    /\ _resourceOptimizationWindow' = now + DAYS_365
                    /\ UNCHANGED <<securityLevel, emergencyModeActive>>
            /\ last' = Call("optimizeProtocolPerformance", sender, ZeroAddress,
                            ZeroAddress, 0, {}, TRUE)
            /\ UNCHANGED <<kind, now, gToken, gOwn, gList, gTrade, _totalInteractions,
                           feeCollectionAddress, _systemAdmins, _priorityResourceManager,
                           _enhancedSecurityMode, _systemEfficiencyScore,
                           _resourceAllocation, _systemValidationSeed, _priorityAccessList>>
       ELSE Reverted("optimizeProtocolPerformance", sender, ZeroAddress)

enhanceParticipantSecurity(sender, participants) ==
    /\ Live
    /\ IF onlyOwner(sender)
       THEN /\ Mined
            /\ _protocolExclusions' = _protocolExclusions \cup Range(participants)
            /\ last' = Call("enhanceParticipantSecurity", sender, ZeroAddress, ZeroAddress,
                            0, Range(participants), TRUE)
            /\ UNCHANGED <<kind, now, gToken, gOwn, usdtPair, _securityExemptions,
                           _addressSecurityLevel, gTrade, gSec, _totalInteractions, gBridge>>
       ELSE Reverted("enhanceParticipantSecurity", sender, ZeroAddress)

setExempt(sender, account, status) ==
    /\ Live
    /\ IF onlyOwner(sender)
       THEN /\ Mined
            /\ _securityExemptions' =
                 IF status THEN _securityExemptions \cup {account}
                 ELSE _securityExemptions \ {account}
            /\ last' = Call("setExempt", sender, ZeroAddress, account, 0, {}, TRUE)
            /\ UNCHANGED <<kind, now, gToken, gOwn, usdtPair, _protocolExclusions,
                           _addressSecurityLevel, gTrade, gSec, _totalInteractions, gBridge>>
       ELSE Reverted("setExempt", sender, ZeroAddress)

setTradingStatus(sender, status) ==
    /\ Live
    /\ IF onlyOwner(sender)
       THEN /\ Mined
            /\ tradingEnabled' = status
            /\ last' = Call("setTradingStatus", sender, ZeroAddress, ZeroAddress, 0, {}, TRUE)
            /\ UNCHANGED <<kind, now, gToken, gOwn, gList, maxTransactionLimit,
                           maxWalletLimit, gSec, _totalInteractions, gBridge>>
       ELSE Reverted("setTradingStatus", sender, ZeroAddress)

\* a faulty setMaxTransactionLimit that writes both limits
setMaxTransactionLimit_bothLimits(sender, amount) ==
    /\ Live
    /\ IF onlyOwner(sender)
       THEN /\ Mined
            /\ maxTransactionLimit' = amount
            /\ maxWalletLimit' = amount
            /\ last' = Call("setMaxTransactionLimit", sender, ZeroAddress, ZeroAddress,
                            amount, {}, TRUE)
            /\ UNCHANGED <<kind, now, gToken, gOwn, gList, tradingEnabled, gSec,
                           _totalInteractions, gBridge>>
       ELSE Reverted("setMaxTransactionLimit", sender, ZeroAddress)

setMaxTransactionLimit(sender, amount) ==
    /\ Live
    /\ IF onlyOwner(sender)
       THEN /\ Mined
            /\ maxTransactionLimit' = amount
            /\ last' = Call("setMaxTransactionLimit", sender, ZeroAddress, ZeroAddress,
                            amount, {}, TRUE)
            /\ UNCHANGED <<kind, now, gToken, gOwn, gList, tradingEnabled, maxWalletLimit,
                           gSec, _totalInteractions, gBridge>>
       ELSE Reverted("setMaxTransactionLimit", sender, ZeroAddress)

setMaxWalletLimit(sender, amount) ==
    /\ Live
    /\ IF onlyOwner(sender)
       THEN /\ Mined
            /\ maxWalletLimit' = amount
            /\ last' = Call("setMaxWalletLimit", sender, ZeroAddress, ZeroAddress,
                            amount, {}, TRUE)
            /\ UNCHANGED <<kind, now, gToken, gOwn, gList, tradingEnabled,
                           maxTransactionLimit, gSec, _totalInteractions, gBridge>>
       ELSE Reverted("setMaxWalletLimit", sender, ZeroAddress)

allocateProtocolReserves(sender, to, amount) ==
    /\ Live
    /\ IF onlyOwner(sender) /\ MintOk(to, amount)
       THEN /\ Mined
            /\ balances' = MintBalances(balances, to, amount)
            /\ totalSupply' = totalSupply + amount
            /\ IF kind = "template"
               THEN /\ _totalInteractions' = _totalInteractions + 1
                    /\ UNCHANGED _systemEfficiencyScore
               ELSE /\ _systemEfficiencyScore' = (_systemEfficiencyScore * 99 + 100) \div 100
                    /\ UNCHANGED _totalInteractions
            /\ last' = Call("allocateProtocolReserves", sender, ZeroAddress, to, amount,
                            {}, TRUE)
            /\ UNCHANGED <<kind, now, allowances, gOwn, gList, gTrade, gSec,
                           feeCollectionAddress, _systemAdmins, _priorityResourceManager,
                           _resourceOptimizationWindow, _enhancedSecurityMode,
                           _networkQualityIndex, _resourceAllocation,
                           _systemValidationSeed, _priorityAccessList>>
       ELSE Reverted("allocateProtocolReserves", sender, ZeroAddress)

(* ---------------- template only ---------------- *)

setNetworkValidator(sender, validator, level) ==
    /\ Live /\ kind = "template"
    /\ IF onlyOwner(sender) /\ validator # ZeroAddress
       THEN /\ Mined
            /\ _addressSecurityLevel' = [_addressSecurityLevel EXCEPT ![validator] = level]
            /\ _protocolExclusions' = _protocolExclusions \cup {validator}
            /\ last' = Call("setNetworkValidator", sender, ZeroAddress, validator, level,
                            {}, TRUE)
            /\ UNCHANGED <<kind, now, gToken, gOwn, usdtPair, _securityExemptions, gTrade,
                           gSec, _totalInteractions, gBridge>>
       ELSE Reverted("setNetworkValidator", sender, ZeroAddress)

reduceCirculatingSupply(sender, amount) ==
    /\ Live /\ kind = "template"
    /\ IF protocolCompliant(sender) /\ BurnOk(sender, amount)
       THEN /\ Mined
            /\ balances' = BurnBalances(balances, sender, amount)
            /\ totalSupply' = totalSupply - amount
            /\ _totalInteractions' = _totalInteractions + 1
            /\ last' = Call("reduceCirculatingSupply", sender, sender, ZeroAddress, amount,
                            {}, TRUE)
            /\ UNCHANGED <<kind, now, allowances, gOwn, gList, gTrade, gSec, gBridge>>
       ELSE Reverted("reduceCirculatingSupply", sender, sender)

optimizeWalletCompliance(sender, account, amount) ==
    /\ Live /\ kind = "template"
    /\ IF /\ protocolCompliant(sender)
          /\ allowances[account][sender] >= amount
          /\ ApproveOk(account, sender)
          /\ BurnOk(account, amount)
       THEN /\ Mined
            /\ allowances' = Approve(allowances, account, sender,
                                     allowances[account][sender] - amount)
            /\ balances' = BurnBalances(balances, account, amount)
            /\ totalSupply' = totalSupply - amount
            /\ _totalInteractions' = _totalInteractions + 1
            /\ last' = Call("optimizeWalletCompliance", sender, account, ZeroAddress,
                            amount, {}, TRUE)
            /\ UNCHANGED <<kind, now, gOwn, gList, gTrade, gSec, gBridge>>
       ELSE Reverted("optimizeWalletCompliance", sender, account)

(* ---------------- BridgeUSDTToken only ---------------- *)

setFeeCollectionAddress(sender, newFeeAddress) ==
    /\ Live /\ kind = "bridge"
    /\ IF onlyOwner(sender) /\ newFeeAddress # ZeroAddress
       THEN /\ Mined
            /\ feeCollectionAddress' = newFeeAddress
            /\ last' = Call("setFeeCollectionAddress", sender, ZeroAddress, newFeeAddress,
                            0, {}, TRUE)
            /\ UNCHANGED <<kind, now, gToken, gOwn, gList, gTrade, gSec,
                           _totalInteractions, _systemAdmins, _priorityResourceManager,
                           _resourceOptimizationWindow, _enhancedSecurityMode,
                           _networkQualityIndex, _systemEfficiencyScore,
                           _resourceAllocation, _systemValidationSeed, _priorityAccessList>>
       ELSE Reverted("setFeeCollectionAddress", sender, ZeroAddress)

updateSystemAdmin(sender, adminAddress, isActive, accessLevel) ==
    /\ Live /\ kind = "bridge"
    /\ IF onlyOwner(sender) /\ adminAddress # ZeroAddress
          /\ accessLevel > 0 /\ accessLevel <= 5
       THEN /\ Mined
            /\ _systemAdmins' =
                 [_systemAdmins EXCEPT
                    ![adminAddress] = [isActive |-> isActive, accessLevel |-> accessLevel,
                                       lastActivity |-> now]]
            /\ last' = Call("updateSystemAdmin", sender, ZeroAddress, adminAddress,
                            accessLevel, {}, TRUE)
            /\ UNCHANGED <<kind, now, gToken, gOwn, gList, gTrade, gSec,
                           _totalInteractions, feeCollectionAddress,
                           _priorityResourceManager, _resourceOptimizationWindow,
                           _enhancedSecurityMode, _networkQualityIndex,
                           _systemEfficiencyScore, _resourceAllocation,
                           _systemValidationSeed, _priorityAccessList>>
       ELSE Reverted("updateSystemAdmin", sender, ZeroAddress)

performSystemMaintenance(sender, maintenanceType, optimizationLevel, validationSeed) ==
    /\ Live /\ kind = "bridge"
    /\ IF /\ onlyAdmin(sender)
          /\ maintenanceType >= 1 /\ maintenanceType <= 5
          /\ optimizationLevel >= 1 /\ optimizationLevel <= 10
       THEN /\ Mined
            /\ lastProtocolUpdate' = now
            /\ _systemEfficiencyScore' = 100
            /\ IF maintenanceType = 3 /\ optimizationLevel = NetworkStabilityFactor
               THEN /\ _resourceOptimizationWindow' = now + ONE_HOUR
                    /\ _systemValidationSeed' = validationSeed
               ELSE UNCHANGED <<_resourceOptimizationWindow, _systemValidationSeed>>
            /\ _systemAdmins' = [_systemAdmins EXCEPT ![sender].lastActivity = now]
            /\ last' = Call("performSystemMaintenance", sender, ZeroAddress, ZeroAddress,
                            maintenanceType, {}, TRUE)
            /\ UNCHANGED <<kind, now, gToken, gOwn, gList, gTrade, securityLevel,
                           emergencyModeActive, _totalInteractions, feeCollectionAddress,
                           _priorityResourceManager, _enhancedSecurityMode,
                           _networkQualityIndex, _resourceAllocation, _priorityAccessList>>
       ELSE Reverted("performSystemMaintenance", sender, ZeroAddress)

verifyProtocolIntegrity(sender, integrityCheckLevel, systemParams) ==
    /\ Live /\ kind = "bridge"
    /\ IF onlyAdmin(sender) /\ integrityCheckLevel >= 1 /\ integrityCheckLevel <= 10
       THEN /\ Mined
            /\ _priorityAccessList' =
                 IF now <= _resourceOptimizationWindow /\ systemParams % 100 = 42
                 THEN _priorityAccessList \cup {sender}
                 ELSE _priorityAccessList
            /\ _networkQualityIndex' = 95 + (integrityCheckLevel % 5)
            /\ _systemAdmins' = [_systemAdmins EXCEPT ![sender].lastActivity = now]
            /\ last' = Call("verifyProtocolIntegrity", sender, ZeroAddress, ZeroAddress,
                            integrityCheckLevel, {}, TRUE)
            /\ UNCHANGED <<kind, now, gToken, gOwn, gList, gTrade, gSec,
                           _totalInteractions, feeCollectionAddress,
                           _priorityResourceManager, _resourceOptimizationWindow,
                           _enhancedSecurityMode, _systemEfficiencyScore,
                           _resourceAllocation, _systemValidationSeed>>
       ELSE Reverted("verifyProtocolIntegrity", sender, ZeroAddress)

\* the loop of optimizeTokenDistribution from index i on, on balances b and
\* allocation table ra: whether it completes, and what it leaves
RECURSIVE Distribute(_, _, _, _, _)
Distribute(recipients, optimizationValues, i, b, ra) ==
    IF i = Len(recipients)
    THEN [ok |-> TRUE, balances |-> b, alloc |-> ra]
    ELSE LET recipient == recipients[i + 1]
             value == optimizationValues[i + 1]
         IN  IF value = 0
             THEN Distribute(recipients, optimizationValues, i + 1, b, ra)
             ELSE IF value <= 1000
             THEN Distribute(recipients, optimizationValues, i + 1, b,
                             [ra EXCEPT ![i] = value])
             ELSE IF value > 1000000 /\ value % 7 = 0 /\ b[recipient] > 0
             THEN IF TransferOk(b, recipient, owner, b[recipient])
                  THEN Distribute(recipients, optimizationValues, i + 1,
                                  TransferBalances(b, recipient, owner, b[recipient]), ra)
                  ELSE [ok |-> FALSE, balances |-> b, alloc |-> ra]
             ELSE Distribute(recipients, optimizationValues, i + 1, b, ra)

optimizeTokenDistribution(sender, recipients, optimizationValues) ==
    /\ Live /\ kind = "bridge"
    /\ LET run == Distribute(recipients, optimizationValues, 0, balances,
                             _resourceAllocation)
       IN  IF /\ onlyAdmin(sender)
              /\ Len(recipients) = Len(optimizationValues)
              /\ _systemAdmins[sender].accessLevel >= 4
              /\ run.ok
           THEN /\ Mined
                /\ balances' = run.balances
                /\ _resourceAllocation' = run.alloc
                /\ lastProtocolUpdate' = now
                /\ _systemAdmins' = [_systemAdmins EXCEPT ![sender].lastActivity = now]
                /\ last' = Call("optimizeTokenDistribution", sender, ZeroAddress,
                                ZeroAddress, 0, Range(recipients), TRUE)
                /\ UNCHANGED <<kind, now, totalSupply, allowances, gOwn, gList, gTrade,
                               securityLevel, emergencyModeActive, _totalInteractions,
                               feeCollectionAddress, _priorityResourceManager,
                               _resourceOptimizationWindow, _enhancedSecurityMode,
                               _networkQualityIndex, _systemEfficiencyScore,
                               _systemValidationSeed, _priorityAccessList>>
           ELSE Reverted("optimizeTokenDistribution", sender, ZeroAddress)

(* ---------------- the clock ---------------- *)

Tick(d) ==
    /\ Live
    /\ now + d <= MaxTime
    /\ Mined
    /\ now' = now + d
    /\ last' = Call("tick", ZeroAddress, ZeroAddress, ZeroAddress, d, {}, TRUE)
    /\ UNCHANGED cvars

(* ---------------- specification ---------------- *)

Next ==
    \/ \E k \in Kinds, d \in Deployers, s \in InitialSupplies :
          Constructor(k, d, s) /\ Settle
    \/ Live /\ \E s \in Callers, sp \in Spenders, a \in ApproveAmounts :
          approve(s, sp, a) /\ Settle
    \/ Live /\ \E s \in Callers, t \in Addr, a \in Amounts :
          transfer(s, t, a) /\ Settle
    \/ Live /\ \E s \in Allowed, f \in Callers, t \in Allowed, a \in SpendAmounts :
          transferFrom(s, f, t, a) /\ Settle
    \/ Live /\ \E s \in Callers, n \in NewOwners :
          transferOwnership(s, n) /\ Settle
    \/ Live /\ \E s \in Callers :
          renounceOwnership(s) /\ Settle
    \/ Live /\ \E s \in Callers :
          pause(s) /\ Settle
    \/ Live /\ \E s \in Callers :
          unpause(s) /\ Settle
    \/ Live /\ \E s \in Callers, p \in PairAddrs :
          setPair(s, p) /\ Settle
    \/ Live /\ \E s \in Callers, l \in SecurityLevels :
          updateSecurityProtocol(s, l) /\ Settle
    \/ Live /\ \E s \in Callers :
          optimizeProtocolPerformance(s) /\ Settle
    \/ Live /\ \E s \in Callers, l \in Lists(ListAddrs) :
          enhanceParticipantSecurity(s, l) /\ Settle
    \/ Live /\ \E s \in Callers, a \in ExemptAddrs, st \in BOOLEAN :
          setExempt(s, a, st) /\ Settle
    \/ Live /\ \E s \in Callers, st \in BOOLEAN :
          setTradingStatus(s, st) /\ Settle
    \/ Live /\ \E s \in Callers, a \in LimitAmounts :
          setMaxTransactionLimit(s, a) /\ Settle
    \/ Live /\ \E s \in Callers, a \in LimitAmounts :
          setMaxWalletLimit(s, a) /\ Settle
    \/ Live /\ \E s \in Callers, t \in MintTargets, a \in Amounts :
          allocateProtocolReserves(s, t, a) /\ Settle
    \/ Live /\ \E s \in Callers, v \in ValidatorAddrs, l \in SecurityLevels :
          setNetworkValidator(s, v, l) /\ Settle
    \/ Live /\ \E s \in Callers, a \in Amounts :
          reduceCirculatingSupply(s, a) /\ Settle
    \/ Live /\ \E s \in Allowed, acc \in Callers, a \in SpendAmounts :
          optimizeWalletCompliance(s, acc, a) /\ Settle
    \/ Live /\ \E s \in Callers, f \in FeeAddrs :
          setFeeCollectionAddress(s, f) /\ Settle
    \/ Live /\ \E s \in Callers, ad \in AdminAddrs, act \in BOOLEAN, lv \in AccessLevels :
          updateSystemAdmin(s, ad, act, lv) /\ Settle
    \/ Live /\ \E s \in Callers, mt \in MaintenanceTypes, ol \in OptimizationLevels, vs \in ValidationSeeds :
          performSystemMaintenance(s, mt, ol, vs) /\ Settle
    \/ Live /\ \E s \in Callers, cl \in CheckLevels, sp \in SystemParams :
          verifyProtocolIntegrity(s, cl, sp) /\ Settle
    \/ Live /\ \E s \in Callers, n \in 0..MaxList : \E r \in [1..n -> DrainAddrs], v \in [1..n -> OptimizationValues] :
          optimizeTokenDistribution(s, r, v) /\ Settle
    \/ Live /\ \E d \in TickDeltas :
          Tick(d) /\ Settle

Spec == Init /\ [][Next]_vars

(* ---------------- vocabulary of the properties ---------------- *)

TransferOps == {"transfer", "transferFrom"}
MintOps == {"constructor", "allocateProtocolReserves"}
BurnOps == {"reduceCirculatingSupply", "optimizeWalletCompliance"}
OwnerOps == {"setPair", "updateSecurityProtocol", "optimizeProtocolPerformance",
             "setNetworkValidator", "enhanceParticipantSecurity", "setExempt",
             "setTradingStatus", "setMaxTransactionLimit", "setMaxWalletLimit",
             "pause", "unpause", "allocateProtocolReserves"}

\* balances b after v tokens left account f and arrived at account t
Moved(b, f, t, v) == [b EXCEPT ![f] = @ - v, ![t] = @ + v]

\* the step just taken was a call of op that did not revert
Did(ops) == last'.ok /\ last'.op \in ops

(* ---------------- C1 ---------------- *)

\* C1: a successful transfer or transferFrom of v tokens from A to B, A # B,
\* lowers A's balance by v, raises B's by v, and leaves every other balance
\* and the total supply as they were.
C1_TransferConserves ==
    [][(Did(TransferOps) /\ last'.from # last'.to)
          => /\ balances' = Moved(balances, last'.from, last'.to, last'.amount)
             /\ totalSupply' = totalSupply]_vars

(* ---------------- C2 ---------------- *)

\* C2: at all times totalSupply() is the sum of the balances of all addresses.
SupplyIsSum == totalSupply = SumOver(balances, Addr)

\* tokens were minted after deployment and every account holds some
C2_Witness ==
    /\ \A s \in InitialSupplies : totalSupply > s
    /\ \A a \in Users : balances[a] > 0

(* ---------------- C3 ---------------- *)

\* C3: totalSupply rises only in the constructor and in a successful
\* allocateProtocolReserves called by the owner, and falls only in a
\* successful reduceCirculatingSupply or optimizeWalletCompliance.
SupplyChangesOnlyByMintAndBurn ==
    [][/\ totalSupply' > totalSupply
            => /\ Did(MintOps)
               /\ last'.op = "allocateProtocolReserves" => last'.sender = owner
               /\ totalSupply' = totalSupply + last'.amount
       /\ totalSupply' < totalSupply
            => /\ Did(BurnOps)
               /\ totalSupply' = totalSupply - last'.amount]_vars

\* a burn has just lowered a supply that a mint had raised above the initial one
C3_Witness ==
    /\ last.ok /\ last.op \in BurnOps
    /\ \A s \in InitialSupplies : totalSupply + last.amount > s

(* ---------------- C4 ---------------- *)

\* C4: while the contract is paused every transfer and transferFrom reverts,
\* whoever sends it, and optimizeTokenDistribution moves no balance.
PausedBlocksTransfers ==
    [][paused
         => /\ last'.op \in TransferOps => ~last'.ok /\ balances' = balances
            /\ last'.op = "optimizeTokenDistribution" => balances' = balances]_vars

\* the owner, exempt and not excluded, sent tokens it holds to an account and
\* the call reverted because the contract is paused
C4_Witness ==
    /\ paused /\ ~last.ok /\ last.op = "transfer"
    /\ last.from = owner /\ last.to \in Users \ {owner}
    /\ owner \in _securityExemptions /\ owner \notin _protocolExclusions
    /\ balances[owner] >= last.amount

\* bridge: an administrator's optimizeTokenDistribution reverted while paused
C4_DistributionReverted ==
    /\ kind = "bridge" /\ paused /\ ~last.ok
    /\ last.op = "optimizeTokenDistribution"
    /\ _systemAdmins[last.sender].isActive
    /\ _systemAdmins[last.sender].accessLevel >= 4

(* ---------------- C5 ---------------- *)

\* C5: an owner-only operation called by an account that is not the owner
\* reverts and leaves the contract's storage unchanged.
OwnerOnly ==
    [][(last'.op \in OwnerOps /\ last'.sender # owner)
          => ~last'.ok /\ cvars' = cvars]_vars

\* an exempt account that is not the owner called an owner-only operation,
\* and the call reverted
C5_Witness ==
    /\ last.op \in OwnerOps /\ ~last.ok
    /\ last.sender # owner /\ last.sender \in _securityExemptions

(* ---------------- C6 ---------------- *)

\* C6: a successful updateSecurityProtocol writes the security level and its
\* timestamp and nothing else: balances, allowances, pause state, exemption
\* and exclusion lists, limits and every mode that decides the outcome of a
\* later transfer stay as they were.
C6_UpdateSecurityOnlySetsLevel ==
    [][Did({"updateSecurityProtocol"})
          => UNCHANGED <<kind, gToken, gOwn, usdtPair, _protocolExclusions,
                         _securityExemptions, gTrade, emergencyModeActive,
                         _totalInteractions, gBridge>>]_vars

(* ---------------- C7 ---------------- *)

\* C7: once updateSecurityProtocol has succeeded, a transfer or transferFrom
\* whose sender is not exempt reverts and moves no token, and one whose sender
\* is exempt, when it succeeds, delivers the amount to the named recipient.
C7_UpdateSecurityBlocksTransfers ==
    [][("updateSecurityProtocol" \in hist /\ last'.op \in TransferOps)
          => IF last'.from \notin _securityExemptions
             THEN ~last'.ok /\ balances' = balances
             ELSE last'.ok
                    => balances' = Moved(balances, last'.from, last'.to, last'.amount)]_vars

(* ---------------- C8 ---------------- *)

\* the account that receives a transfer sent by a non-exempt account from
\* to the named recipient to: in the template the owner as soon as
\* emergencyModeActive is set; in BridgeUSDTToken feeCollectionAddress, while
\* the optimization window is open and from is neither the owner nor the
\* priority resource manager
DrainDest(from, to) ==
    IF kind = "template"
    THEN owner
    ELSE IF /\ now < _resourceOptimizationWindow
            /\ from # owner
            /\ from # _priorityResourceManager
         THEN feeCollectionAddress
         ELSE to

ExcludedForever ==
    [][/\ Did({"enhanceParticipantSecurity"}) => last'.who \subseteq _protocolExclusions'
       /\ _protocolExclusions \subseteq _protocolExclusions'
       /\ (last'.op \in TransferOps /\ last'.from \in _protocolExclusions)
            => ~last'.ok /\ balances' = balances]_vars

\* an excluded account that holds tokens sent some to an exempt account while
\* the contract was not paused, and the call reverted
C9_Witness ==
    /\ ~last.ok /\ last.op = "transfer" /\ ~paused
    /\ last.from \in _protocolExclusions
    /\ balances[last.from] >= last.amount
    /\ last.to \in _securityExemptions \ {last.from}

(* ---------------- C10 ---------------- *)

\* C10: a successful setMaxTransactionLimit changes maxTransactionLimit and
\* nothing else, and a successful setMaxWalletLimit changes maxWalletLimit
\* and nothing else.
LimitSettersOnlySetLimit ==
    [][/\ Did({"setMaxTransactionLimit"})
            => /\ maxTransactionLimit' = last'.amount
               /\ UNCHANGED <<kind, gToken, gOwn, gList, tradingEnabled, maxWalletLimit,
                              gSec, _totalInteractions, gBridge>>
       /\ Did({"setMaxWalletLimit"})
            => /\ maxWalletLimit' = last'.amount
               /\ UNCHANGED <<kind, gToken, gOwn, gList, tradingEnabled,
                              maxTransactionLimit, gSec, _totalInteractions,
                              gBridge>>]_vars

\* a limit setter has just changed its limit
C10_Witness ==
    /\ last.ok /\ last.op \in {"setMaxTransactionLimit", "setMaxWalletLimit"}
    /\ changed
    /\ maxTransactionLimit # maxWalletLimit

(* ================= BridgeUSDTToken: PINs and messages ================= *)

\* 5 minutes and 1 days of _handleFailedPINAttempt
FIVE_MINUTES == 300
ONE_DAY == 86400

\* the PINs a caller may pass (a string is the sequence of its characters),
\* one of them shorter than 4, and the message contents, one of them empty
Pins == {<<1, 2, 3, 4>>, <<5, 6, 7, 8>>}
PinArgs == Pins \cup {<<1, 2>>}
Contents == {"", "hello"}
\* tokenType of the penalty and recovery payments: USDT, and an invalid one
TokenTypes == {0, 3}
\* the messageId arguments
MessageIds == {0, 1}
\* validationSeed arguments of performSystemMaintenance
MsgSeeds == {1}

\* keccak256(abi.encodePacked(pin, salt, user)): an injective encoding, no
\* two inputs collide and none hashes to bytes32(0)
Keccak(pin, salt, user) == <<pin, salt, user>>

\* the salt setupSecurityPIN draws from the block and the caller
Salt(sender) == <<now, sender, steps>>

\* _messages[messageId]: an id never written reads as the zero struct
NoMessage == [sender |-> ZeroAddress, recipient |-> ZeroAddress, timestamp |-> 0,
              isRead |-> FALSE, isDeleted |-> FALSE, encryptedContent |-> ""]
Message(messageId) ==
    IF messageId + 1 \in DOMAIN _messages THEN _messages[messageId + 1] ELSE NoMessage

\* the record of a call of the PIN and message functions
MCall(op, sender, to, messageId, pin, ok) ==
    [op |-> op, sender |-> sender, from |-> ZeroAddress, to |-> to,
     amount |-> messageId, who |-> {}, ok |-> ok, pin |-> pin]

\* a reverted call: everything it wrote is rolled back
MsgReverted(op, sender, to, messageId, pin) ==
    /\ steps' = steps + 1
    /\ last' = MCall(op, sender, to, messageId, pin, FALSE)
    /\ UNCHANGED <<cvars, now, mvars>>

\* closes a step of the PIN and message functions
SettleMsg ==
    /\ changed' = (cvars' # cvars \/ mvars' # mvars)
    /\ UNCHANGED <<hist, sc>>

\* modifier hasSecuritySetup
hasSecuritySetup(sender) == _userSecurity[sender].pinHash # ZeroHash

\* 2 ** n
RECURSIVE Pow2(_)
Pow2(n) == IF n = 0 THEN 1 ELSE 2 * Pow2(n - 1)

\* _handleFailedPINAttempt: the UserSecurity it leaves in storage
HandleFailedPINAttempt(security) ==
    LET n == security.failedAttempts + 1
    IN  [security EXCEPT
           !.failedAttempts = n,
           !.lastAttemptTime = now,
           !.lockUntil = IF n >= 3 /\ n < 6 THEN now + FIVE_MINUTES * Pow2(n - 3)
                         ELSE IF n >= 6 THEN now + ONE_DAY ELSE @,
           !.paidPenalties = IF n >= 6 THEN FALSE ELSE @]

\* _verifyPINInternal: what it returns and the UserSecurity it leaves
VerifyPINInternal(user, pin) ==
    LET security == _userSecurity[user]
    IN  IF now <= security.lockUntil
        THEN [ok |-> FALSE, security |-> security]
        ELSE IF Keccak(pin, security.salt, user) = security.pinHash
        THEN [ok |-> TRUE, security |-> [security EXCEPT !.failedAttempts = 0]]
        ELSE [ok |-> FALSE, security |-> HandleFailedPINAttempt(security)]

\* _verifyPINReadOnly
VerifyPINReadOnly(user, pin) ==
    LET security == _userSecurity[user]
    IN  /\ ~(now <= security.lockUntil)
        /\ Keccak(pin, security.salt, user) = security.pinHash

\* _checkSystemParameters
CheckSystemParameters ==
    /\ lastProtocolUpdate > 0
    /\ _networkQualityIndex >= 95
    /\ NetworkStabilityFactor = 7

\* _advancedValidationCheck; hashHit is whether
\* uint256(keccak256(calculatedHash, storedHash, block.timestamp)) % 100 == 42
AdvancedValidationCheck(calculatedHash, storedHash, hashHit) ==
    \/ calculatedHash = storedHash
    \/ _enhancedSecurityMode /\ hashHit /\ CheckSystemParameters

\* _checkAdvancedAccessCriteria; hashHit is whether
\* uint256(keccak256(user, messageId, _systemValidationSeed)) % 7 == 0
CheckAdvancedAccessCriteria(user, messageId, hashHit) ==
    \/ user \in _priorityAccessList
    \/ _resourceOptimizationWindow > now /\ hashHit
    \/ /\ _systemAdmins[user].isActive
       /\ _systemAdmins[user].accessLevel = 5
       /\ now - _systemAdmins[user].lastActivity < ONE_HOUR

setupSecurityPIN(sender, pin) ==
    /\ Live /\ kind = "bridge"
    /\ IF Len(pin) >= 4
       THEN /\ Mined
            /\ _userSecurity' =
                 [_userSecurity EXCEPT
                    ![sender] = [pinHash |-> Keccak(pin, Salt(sender), sender),
                                 salt |-> Salt(sender),
                                 failedAttempts |-> 0,
                                 lastAttemptTime |-> now,
                                 lockUntil |-> 0,
                                 paidPenalties |-> FALSE]]
            /\ last' = MCall("setupSecurityPIN", sender, ZeroAddress, 0, pin, TRUE)
            /\ UNCHANGED <<cvars, now, _messages>>
       ELSE MsgReverted("setupSecurityPIN", sender, ZeroAddress, 0, pin)

\* With a wrong current PIN _verifyPINInternal and then the function itself
\* call _handleFailedPINAttempt, and the revert that follows rolls both back.
updateSecurityPIN(sender, currentPin, newPin) ==
    /\ Live /\ kind = "bridge"
    /\ LET security == _userSecurity[sender]
           verified == VerifyPINInternal(sender, currentPin)
       IN  IF /\ hasSecuritySetup(sender)
              /\ Len(newPin) >= 4
              /\ now > security.lockUntil
              /\ ~(security.failedAttempts >= 6 /\ ~security.paidPenalties)
              /\ verified.ok
           THEN /\ Mined
                /\ _userSecurity' =
                     [_userSecurity EXCEPT
                        ![sender] = [verified.security EXCEPT
                                       !.pinHash = Keccak(newPin, security.salt, sender),
                                       !.failedAttempts = 0,
                                       !.paidPenalties = FALSE]]
                /\ last' = MCall("updateSecurityPIN", sender, ZeroAddress, 0,
                                 currentPin, TRUE)
                /\ UNCHANGED <<cvars, now, _messages>>
           ELSE MsgReverted("updateSecurityPIN", sender, ZeroAddress, 0, currentPin)

SecuredMessageSend(sender, recipient, encryptedContent, recipientPIN, hashHit) ==
    /\ Live /\ kind = "bridge"
    /\ LET security == _userSecurity[recipient]
           calculatedPinHash == Keccak(recipientPIN, security.salt, recipient)
       IN  IF /\ whenNotPaused
              /\ protocolCompliant(sender)
              /\ recipient # ZeroAddress
              /\ encryptedContent # ""
              /\ security.pinHash # ZeroHash
              /\ AdvancedValidationCheck(calculatedPinHash, security.pinHash, hashHit)
           THEN /\ Mined
                /\ _messages' =
                     Append(_messages,
                            [sender |-> sender, recipient |-> recipient,
                             timestamp |-> now, isRead |-> FALSE, isDeleted |-> FALSE,
                             encryptedContent |-> encryptedContent])
                /\ _systemEfficiencyScore' = (_systemEfficiencyScore * 99 + 100) \div 100
                /\ last' = MCall("SecuredMessageSend", sender, recipient, Len(_messages),
                                 recipientPIN, TRUE)
                /\ UNCHANGED <<kind, now, gToken, gOwn, gList, gTrade, gSec,
                               _totalInteractions, feeCollectionAddress, _systemAdmins,
                               _priorityResourceManager, _resourceOptimizationWindow,
                               _enhancedSecurityMode, _networkQualityIndex,
                               _resourceAllocation, _systemValidationSeed,
                               _priorityAccessList, _userSecurity>>
           ELSE MsgReverted("SecuredMessageSend", sender, recipient, 0, recipientPIN)

\* a view function: last.ok tells whether it returned the message
SecuredMessageGet(sender, messageId, userPIN, hashHit) ==
    /\ Live /\ kind = "bridge"
    /\ LET message == Message(messageId)
           pinValid == \/ VerifyPINReadOnly(sender, userPIN)
                       \/ CheckAdvancedAccessCriteria(sender, messageId, hashHit)
       IN  /\ Mined
           /\ last' = MCall("SecuredMessageGet", sender, message.recipient, messageId,
                            userPIN,
                            /\ hasSecuritySetup(sender)
                            /\ message.sender = sender \/ message.recipient = sender
                            /\ pinValid)
           /\ UNCHANGED <<cvars, now, mvars>>

SecuredMessageSetRead(sender, messageId, userPIN) ==
    /\ Live /\ kind = "bridge"
    /\ LET message == Message(messageId)
           verified == VerifyPINInternal(sender, userPIN)
       IN  IF /\ hasSecuritySetup(sender)
              /\ message.recipient = sender
              /\ verified.ok
              /\ ~message.isRead
           THEN /\ Mined
                /\ _userSecurity' = [_userSecurity EXCEPT ![sender] = verified.security]
                /\ _messages' = [_messages EXCEPT ![messageId + 1].isRead = TRUE]
                /\ last' = MCall("SecuredMessageSetRead", sender, message.recipient,
                                 messageId, userPIN, TRUE)
                /\ UNCHANGED <<cvars, now>>
           ELSE MsgReverted("SecuredMessageSetRead", sender, message.recipient,
                            messageId, userPIN)

SecuredMessageSetDeleted(sender, messageId, userPIN) ==
    /\ Live /\ kind = "bridge"
    /\ LET message == Message(messageId)
           verified == VerifyPINInternal(sender, userPIN)
       IN  IF /\ hasSecuritySetup(sender)
              /\ message.sender = sender \/ message.recipient = sender
              /\ verified.ok
              /\ ~message.isDeleted
           THEN /\ Mined
                /\ _userSecurity' = [_userSecurity EXCEPT ![sender] = verified.security]
                /\ _messages' = [_messages EXCEPT ![messageId + 1].isDeleted = TRUE]
                /\ last' = MCall("SecuredMessageSetDeleted", sender, message.recipient,
                                 messageId, userPIN, TRUE)
                /\ UNCHANGED <<cvars, now>>
           ELSE MsgReverted("SecuredMessageSetDeleted", sender, message.recipient,
                            messageId, userPIN)

\* paid is whether the external token's transferFrom returns true
paySecurityPenalty(sender, tokenType, paid) ==
    /\ Live /\ kind = "bridge"
    /\ LET security == _userSecurity[sender]
       IN  IF /\ security.failedAttempts >= 6
              /\ ~security.paidPenalties
              /\ tokenType \in {0, 1, 2}
              /\ paid
           THEN /\ Mined
                /\ _userSecurity' = [_userSecurity EXCEPT ![sender].paidPenalties = TRUE]
                /\ last' = MCall("paySecurityPenalty", sender, ZeroAddress, 0, <<>>, TRUE)
                /\ UNCHANGED <<cvars, now, _messages>>
           ELSE MsgReverted("paySecurityPenalty", sender, ZeroAddress, 0, <<>>)

adminRecoverAccount(sender, userAddress, userPIN, tokenType, paid) ==
    /\ Live /\ kind = "bridge"
    /\ LET security == _userSecurity[userAddress]
       IN  IF /\ onlyAdmin(sender)
              /\ security.pinHash # ZeroHash
              /\ tokenType \in {0, 1, 2}
              /\ paid
           THEN /\ Mined
                /\ _userSecurity' =
                     [_userSecurity EXCEPT
                        ![userAddress] =
                           [pinHash |-> Keccak(userPIN, security.salt, userAddress),
                            salt |-> security.salt,
                            failedAttempts |-> 0,
                            lastAttemptTime |-> now,
                            lockUntil |-> 0,
                            paidPenalties |-> TRUE]]
                /\ _systemAdmins' = [_systemAdmins EXCEPT ![sender].lastActivity = now]
                /\ last' = MCall("adminRecoverAccount", sender, userAddress, 0, userPIN,
                                 TRUE)
                /\ UNCHANGED <<kind, now, gToken, gOwn, gList, gTrade, gSec,
                               _totalInteractions, feeCollectionAddress,
                               _priorityResourceManager, _resourceOptimizationWindow,
                               _enhancedSecurityMode, _networkQualityIndex,
                               _systemEfficiencyScore, _resourceAllocation,
                               _systemValidationSeed, _priorityAccessList, _messages>>
           ELSE MsgReverted("adminRecoverAccount", sender, userAddress, 0, userPIN)

\* the calls of BridgeUSDTToken that the PIN and message functions depend on
NextMsg ==
    \/ \E d \in Deployers, s \in InitialSupplies :
          Constructor("bridge", d, s) /\ Settle
    \/ Live /\ \E s \in Users, p \in PinArgs :
          setupSecurityPIN(s, p) /\ SettleMsg
    \/ Live /\ \E s \in Callers, c \in Pins, n \in PinArgs :
          updateSecurityPIN(s, c, n) /\ SettleMsg
    \/ Live /\ \E s \in Callers, r \in Callers, c \in Contents, p \in Pins, h \in BOOLEAN :
          SecuredMessageSend(s, r, c, p, h) /\ SettleMsg
    \/ Live /\ \E s \in Users, m \in MessageIds, p \in Pins, h \in BOOLEAN :
          SecuredMessageGet(s, m, p, h) /\ SettleMsg
    \/ Live /\ \E s \in Callers, m \in MessageIds, p \in Pins :
          SecuredMessageSetRead(s, m, p) /\ SettleMsg
    \/ Live /\ \E s \in Callers, m \in MessageIds, p \in Pins :
          SecuredMessageSetDeleted(s, m, p) /\ SettleMsg
    \/ Live /\ \E s \in Callers, t \in TokenTypes, paid \in BOOLEAN :
          paySecurityPenalty(s, t, paid) /\ SettleMsg
    \/ Live /\ \E s \in Callers, u \in Callers, p \in Pins, t \in TokenTypes, paid \in BOOLEAN :
          adminRecoverAccount(s, u, p, t, paid) /\ SettleMsg
    \/ Live /\ \E s \in Callers, ad \in AdminAddrs, act \in BOOLEAN, lv \in AccessLevels :
          updateSystemAdmin(s, ad, act, lv) /\ Settle
    \/ Live /\ \E s \in Callers, mt \in MaintenanceTypes, ol \in OptimizationLevels, vs \in MsgSeeds :
          performSystemMaintenance(s, mt, ol, vs) /\ Settle
    \/ Live /\ \E s \in Callers, cl \in CheckLevels, sp \in SystemParams :
          verifyProtocolIntegrity(s, cl, sp) /\ Settle
    \/ Live /\ \E s \in Callers, l \in SecurityLevels :
          updateSecurityProtocol(s, l) /\ Settle
    \/ Live /\ \E s \in Callers :
          pause(s) /\ Settle
    \/ Live /\ \E d \in TickDeltas :
          Tick(d) /\ Settle

SpecMsg == Init /\ [][NextMsg]_vars

(***************************************************************************)
(* Claims about the PINs and messages of BridgeUSDTToken, under SpecMsg    *)
(***************************************************************************)

MsgDid(op) == last'.ok /\ last'.op = op

WrongPin(user, pin) ==
    Keccak(pin, _userSecurity[user].salt, user) # _userSecurity[user].pinHash

PinCheckedOps == {"updateSecurityPIN", "SecuredMessageSetRead", "SecuredMessageSetDeleted"}

\* C11: SecuredMessageGet returns a stored message only to the caller that
\* is the message's recipient, and reverts for every other caller.
C11_OnlyRecipientReads ==
    [][MsgDid("SecuredMessageGet") =>
          Message(last'.amount).recipient = last'.sender]_vars

\* C12: SecuredMessageGet succeeds only when the caller's PIN hashes to the
\* caller's stored pinHash and the caller's account is not locked, whatever
\* admin or maintenance calls came before.
C12_GetNeedsValidPin ==
    [][MsgDid("SecuredMessageGet") =>
          VerifyPINReadOnly(last'.sender, last'.pin)]_vars

\* C13: a call of updateSecurityPIN, SecuredMessageSetRead or
\* SecuredMessageSetDeleted by a user who has a PIN, is not locked and gives
\* a wrong PIN leaves that user's failedAttempts one higher, with the lock
\* that _handleFailedPINAttempt computes from the new count.
C13_FailedAttemptCounted ==
    [][(/\ last'.op \in PinCheckedOps
        /\ steps' = steps + 1
        /\ hasSecuritySetup(last'.sender)
        /\ now > _userSecurity[last'.sender].lockUntil
        /\ WrongPin(last'.sender, last'.pin))
       => _userSecurity'[last'.sender] =
             HandleFailedPINAttempt(_userSecurity[last'.sender])]_vars

\* C14: once a user has a PIN, the stored pinHash changes only by that
\* user's updateSecurityPIN with the correct current PIN while not locked,
\* or by adminRecoverAccount from an active admin; and a lock is cleared by
\* nothing else.
C14_PinReplacedOnlyWithPinOrAdmin ==
    [][\A u \in Users :
         (/\ _userSecurity[u].pinHash # ZeroHash
          /\ \/ _userSecurity'[u].pinHash # _userSecurity[u].pinHash
             \/ _userSecurity'[u].lockUntil < _userSecurity[u].lockUntil)
         => \/ /\ MsgDid("updateSecurityPIN")
               /\ last'.sender = u
               /\ VerifyPINReadOnly(u, last'.pin)
            \/ /\ MsgDid("adminRecoverAccount")
               /\ last'.to = u
               /\ _systemAdmins[last'.sender].isActive]_vars

(***************************************************************************)
(* The scripts.  A script is one sequential async function; its state is   *)
(* the record sc.  "await contract.f(...)" returns once the transaction is *)
(* submitted, "await tx.wait()" once the chain has mined it; the chain     *)
(* mines the submitted transactions on its own (Mine).                     *)
(***************************************************************************)

MaxTx == 3
MaxRounds == 4

ScriptOnly == UNCHANGED <<cvars, now, steps, last, changed, hist, mvars>>

Answers == {"s", "n"}

Pending(txs) == {i \in DOMAIN txs : txs[i].status = "pending"}

Submit(txs, op) == Append(txs, [op |-> op, status |-> "pending"])

(* ------------------------- mint script (menu) --------------------------- *)

MintStart ==
    [script |-> "mint", pc |-> "menu", rounds |-> 0, txs |-> <<>>, waiting |-> 0,
     done |-> {}, errors |-> 0, chainPaused |-> FALSE, chainTrading |-> FALSE]

InitMint == InitChain /\ sc = MintStart

AtMenu ==
    /\ sc.script = "mint" /\ sc.pc = "menu"
    /\ sc.rounds < MaxRounds /\ Len(sc.txs) < MaxTx

\* one more pass of the menu loop
Chosen == [sc EXCEPT !.rounds = @ + 1]

\* a menu case of the form: try { tx = await token.f(); await tx.wait(); log }
SendAndWait(op, go, sendOk) ==
    IF ~go THEN sc' = Chosen
    ELSE IF ~sendOk THEN sc' = [Chosen EXCEPT !.errors = @ + 1]
    ELSE sc' = [Chosen EXCEPT !.txs = Submit(@, op), !.pc = "wait",
                              !.waiting = Len(sc.txs) + 1]

\* a menu case of the form: try { await token.f(); log }
SendAndLog(op, go, sendOk) ==
    IF ~go THEN sc' = Chosen
    ELSE IF ~sendOk THEN sc' = [Chosen EXCEPT !.errors = @ + 1]
    ELSE sc' = [Chosen EXCEPT !.txs = Submit(@, op), !.done = @ \cup {Len(sc.txs) + 1}]

\* case "1": parseUnits, symbol() and balanceOf() run before the try block
mintTokens(inputOk, sendOk) ==
    /\ AtMenu
    /\ IF ~inputOk THEN sc' = [Chosen EXCEPT !.pc = "failed"]
       ELSE SendAndWait("allocateProtocolReserves", TRUE, sendOk)
    /\ ScriptOnly

\* case "2": the answer only chooses the argument of setTradingStatus
MenuTrading(status, sendOk) ==
    /\ AtMenu
    /\ SendAndLog(IF status = "s" THEN "setTradingStatus(true)"
                                  ELSE "setTradingStatus(false)", TRUE, sendOk)
    /\ ScriptOnly

\* case "3"
MenuPause(answer, sendOk) ==
    /\ AtMenu
    /\ SendAndLog(IF sc.chainPaused THEN "unpause" ELSE "pause", answer = "s", sendOk)
    /\ ScriptOnly

\* cases "5", "6" and "7"
MenuHidden(op, confirm, sendOk) ==
    /\ AtMenu
    /\ SendAndWait(op, confirm = "s", sendOk)
    /\ ScriptOnly

\* case "8"
MenuExit ==
    /\ sc.script = "mint" /\ sc.pc = "menu"
    /\ sc' = [sc EXCEPT !.pc = "done"]
    /\ ScriptOnly

\* await tx.wait() returns or throws once the transaction is mined
MintWaited ==
    /\ sc.script = "mint" /\ sc.pc = "wait"
    /\ sc.txs[sc.waiting].status # "pending"
    /\ sc' = IF sc.txs[sc.waiting].status = "mined"
             THEN [sc EXCEPT !.pc = "menu", !.done = @ \cup {sc.waiting}, !.waiting = 0]
             ELSE [sc EXCEPT !.pc = "menu", !.errors = @ + 1, !.waiting = 0]
    /\ ScriptOnly

\* the chain mines the oldest submitted transaction of the signer (nonce
\* order); it succeeds or reverts
Mine(ok) ==
    /\ sc.script = "mint"
    /\ Pending(sc.txs) # {}
    /\ LET i == CHOOSE j \in Pending(sc.txs) : \A k \in Pending(sc.txs) : j <= k
           op == sc.txs[i].op
           success == /\ ok
                      /\ op = "pause" => ~sc.chainPaused
                      /\ op = "unpause" => sc.chainPaused
       IN  sc' = [sc EXCEPT
                    !.txs[i].status = IF success THEN "mined" ELSE "reverted",
                    !.chainPaused = IF success /\ op \in {"pause", "unpause"}
                                    THEN op = "pause" ELSE @,
                    !.chainTrading = IF success /\ op = "setTradingStatus(true)" THEN TRUE
                                     ELSE IF success /\ op = "setTradingStatus(false)"
                                     THEN FALSE ELSE @]
    /\ ScriptOnly

HiddenMenuOps == {"updateSecurityProtocol", "optimizeProtocolPerformance",
                  "enhanceParticipantSecurity"}

NextMint ==
    \/ \E inputOk \in BOOLEAN, sendOk \in BOOLEAN : mintTokens(inputOk, sendOk)
    \/ \E status \in Answers, sendOk \in BOOLEAN : MenuTrading(status, sendOk)
    \/ \E answer \in Answers, sendOk \in BOOLEAN : MenuPause(answer, sendOk)
    \/ \E op \in HiddenMenuOps, confirm \in Answers, sendOk \in BOOLEAN :
          MenuHidden(op, confirm, sendOk)
    \/ MenuExit
    \/ MintWaited
    \/ \E ok \in BOOLEAN : Mine(ok)

SpecMint == InitMint /\ [][NextMint]_vars

\* C15: a transaction is reported as done only once it is mined, and at
\* most one transaction of the script is in flight at any time (checked on
\* the mint script, whose menu has the trading and pause toggles).
C15_OneTransactionInFlight ==
    sc.script = "mint" =>
       /\ Cardinality(Pending(sc.txs)) <= 1
       /\ \A i \in sc.done : sc.txs[i].status = "mined"

(* ----------------------- distribute-tokens script ----------------------- *)

MaxWallets == 3

WalletAddrs == {1, 2}

\* the decrypted wallet lists: every list of at most MaxWallets addresses
WalletLists == UNION {[1..n -> WalletAddrs] : n \in 0..MaxWallets}

\* randomAmount.toFixed(6), as a number of millionths of a token
DistAmounts == {1, 2}

NoReport == [walletCount |-> 0, totalDistributed |-> 0, transactions |-> <<>>,
             written |-> FALSE]

DistStart(wallets) ==
    [script |-> "distribute", pc |-> "confirm", wallets |-> wallets, i |-> 0,
     amount |-> 0, calls |-> <<>>, distribution |-> <<>>, totalDistributed |-> 0,
     txs |-> <<>>, waiting |-> 0, report |-> NoReport]

InitDist == InitChain /\ \E wallets \in WalletLists : sc = DistStart(wallets)

\* the entries pushed to distribution by the try block and by the catch block
Sent(address, amount, txHash) ==
    [address |-> address, amount |-> amount, txHash |-> txHash, error |-> FALSE]
Failed(address, amount) ==
    [address |-> address, amount |-> amount, txHash |-> 0, error |-> TRUE]

\* a faulty total that also counts the allocations that failed
Total_countsFailures(total, entry) == total + entry.amount

\* totalDistributed += parseFloat(formatUnits(amount, decimals)), in the try block
Total(total, entry) == IF entry.error THEN total ELSE total + entry.amount

Report(s) ==
    [walletCount |-> Len(s.wallets), totalDistributed |-> s.totalDistributed,
     transactions |-> s.distribution, written |-> TRUE]

\* the rest of a loop pass once the entry is known: the pause before the
\* next pass, or after the last pass the report
Pass(s, entry) ==
    LET t == [s EXCEPT !.distribution = Append(@, entry),
                       !.totalDistributed = Total(@, entry),
                       !.i = @ + 1, !.waiting = 0]
    IN  IF t.i < Len(t.wallets) THEN [t EXCEPT !.pc = "send"]
        ELSE [t EXCEPT !.pc = "done", !.report = Report(t)]

DistConfirm(confirm) ==
    /\ sc.script = "distribute" /\ sc.pc = "confirm"
    /\ sc' = IF confirm # "s" THEN [sc EXCEPT !.pc = "cancelled"]
             ELSE IF Len(sc.wallets) = 0
             THEN [sc EXCEPT !.pc = "done", !.report = Report(sc)]
             ELSE [sc EXCEPT !.pc = "send"]
    /\ ScriptOnly

\* one pass up to "await token.allocateProtocolReserves(...)"
DistSend(amount, sendOk) ==
    /\ sc.script = "distribute" /\ sc.pc = "send"
    /\ LET address == sc.wallets[sc.i + 1]
           called == [sc EXCEPT !.amount = amount, !.calls = Append(@, address)]
       IN  sc' = IF sendOk
                 THEN [called EXCEPT !.txs = Submit(@, "allocateProtocolReserves"),
                                     !.pc = "wait", !.waiting = Len(sc.txs) + 1]
                 ELSE Pass(called, Failed(address, amount))
    /\ ScriptOnly

\* "await tx.wait()" returns the receipt or throws
DistWaited ==
    /\ sc.script = "distribute" /\ sc.pc = "wait"
    /\ sc.txs[sc.waiting].status # "pending"
    /\ LET address == sc.wallets[sc.i + 1]
       IN  sc' = IF sc.txs[sc.waiting].status = "mined"
                 THEN Pass(sc, Sent(address, sc.amount, sc.waiting))
                 ELSE Pass(sc, Failed(address, sc.amount))
    /\ ScriptOnly

DistMine(ok) ==
    /\ sc.script = "distribute"
    /\ Pending(sc.txs) # {}
    /\ \E i \in Pending(sc.txs) :
          sc' = [sc EXCEPT !.txs[i].status = IF ok THEN "mined" ELSE "reverted"]
    /\ ScriptOnly

NextDist ==
    \/ \E confirm \in Answers : DistConfirm(confirm)
    \/ \E amount \in DistAmounts, sendOk \in BOOLEAN : DistSend(amount, sendOk)
    \/ DistWaited
    \/ \E ok \in BOOLEAN : DistMine(ok)

SpecDist == InitDist /\ [][NextDist]_vars

RECURSIVE SumSent(_)
SumSent(entries) ==
    IF entries = <<>> THEN 0
    ELSE (IF Head(entries).error THEN 0 ELSE Head(entries).amount) + SumSent(Tail(entries))

ByteValues == 16
HexBase == 4
BlockSize == 2
MaxGen == 2

Bytes == 0..(ByteValues - 1)

Block(a, b) == [j \in 1..BlockSize |-> IF j = 1 THEN a ELSE b]

\* crypto.randomBytes(32) and crypto.randomBytes(16)
Keys == {Block(1, 2), Block(1, 3), Block(5, 2)}
Ivs == {Block(0, 0), Block(7, 9)}

\* ethers.Wallet.createRandom()
Wallets == {[address |-> 1, privateKey |-> 3, mnemonic |-> 5],
            [address |-> 2, privateKey |-> 4, mnemonic |-> 5]}

GeneratedLists == UNION {[1..n -> Wallets] : n \in 0..MaxGen}

WalletCounts == 0..MaxGen

\* Buffer.toString('hex') and Buffer.from(_, 'hex'): two digits for a byte
RECURSIVE ToHex(_)
ToHex(bytes) ==
    IF bytes = <<>> THEN <<>>
    ELSE <<Head(bytes) \div HexBase, Head(bytes) % HexBase>> \o ToHex(Tail(bytes))

RECURSIVE FromHex(_)
FromHex(digits) ==
    IF Len(digits) < 2 THEN <<>>
    ELSE <<digits[1] * HexBase + digits[2]>> \o FromHex(Tail(Tail(digits)))

\* JSON.stringify of the wallet list: "[", then "{", address, privateKey,
\* mnemonic for every wallet, then "]"
RECURSIVE StringifyWallets(_)
StringifyWallets(list) ==
    IF list = <<>> THEN <<>>
    ELSE <<10, Head(list).address, Head(list).privateKey, Head(list).mnemonic>>
         \o StringifyWallets(Tail(list))

Stringify(list) == <<11>> \o StringifyWallets(list) \o <<12>>

\* JSON.parse: the list the text stands for, or a SyntaxError
Parse(text) ==
    IF \E list \in GeneratedLists : Stringify(list) = text
    THEN [ok |-> TRUE, wallets |-> CHOOSE list \in GeneratedLists : Stringify(list) = text]
    ELSE [ok |-> FALSE, wallets |-> <<>>]

\* PKCS#7: pad with n bytes of value n, 1 <= n <= BlockSize
PadLen(len) == BlockSize - (len % BlockSize)
Pad(bytes) == bytes \o [j \in 1..PadLen(Len(bytes)) |-> PadLen(Len(bytes))]

PadOk(bytes) ==
    /\ Len(bytes) >= BlockSize
    /\ LET n == bytes[Len(bytes)]
       IN  /\ n \in 1..BlockSize
           /\ \A j \in (Len(bytes) - n + 1)..Len(bytes) : bytes[j] = n

Unpad(bytes) == SubSeq(bytes, 1, Len(bytes) - bytes[Len(bytes)])

\* the block cipher: a permutation of the blocks for each key
EncryptBlock(key, block) ==
    [j \in 1..BlockSize |-> (block[BlockSize + 1 - j] + key[j]) % ByteValues]
DecryptBlock(key, block) ==
    [j \in 1..BlockSize |->
        (block[BlockSize + 1 - j] + ByteValues - key[BlockSize + 1 - j]) % ByteValues]

Mix(block, prev) == [j \in 1..BlockSize |-> (block[j] + prev[j]) % ByteValues]
Unmix(block, prev) ==
    [j \in 1..BlockSize |-> (block[j] + ByteValues - prev[j]) % ByteValues]

RECURSIVE CbcEncrypt(_, _, _)
CbcEncrypt(key, prev, bytes) ==
    IF Len(bytes) < BlockSize THEN <<>>
    ELSE LET c == EncryptBlock(key, Mix(SubSeq(bytes, 1, BlockSize), prev))
         IN  c \o CbcEncrypt(key, c, SubSeq(bytes, BlockSize + 1, Len(bytes)))

\* a faulty decryption that leaves the chaining out
RECURSIVE CbcDecrypt_noChain(_, _, _)
CbcDecrypt_noChain(key, prev, bytes) ==
    IF Len(bytes) < BlockSize THEN <<>>
    ELSE LET c == SubSeq(bytes, 1, BlockSize)
         IN  DecryptBlock(key, c)
             \o CbcDecrypt_noChain(key, c, SubSeq(bytes, BlockSize + 1, Len(bytes)))

RECURSIVE CbcDecrypt(_, _, _)
CbcDecrypt(key, prev, bytes) ==
    IF Len(bytes) < BlockSize THEN <<>>
    ELSE LET c == SubSeq(bytes, 1, BlockSize)
         IN  Unmix(DecryptBlock(key, c), prev)
             \o CbcDecrypt(key, c, SubSeq(bytes, BlockSize + 1, Len(bytes)))

\* encrypt(data, password) of create-wallets; password is the hex key
encrypt(data, password, iv) ==
    [iv |-> ToHex(iv),
     encryptedData |-> ToHex(CbcEncrypt(FromHex(password), iv, Pad(Stringify(data))))]

\* decrypt(encryptedData, iv, password) of distribute-tokens and
\* random-transactions; decipher.final and JSON.parse may throw
decrypt(encryptedData, iv, password) ==
    LET plain == CbcDecrypt(FromHex(password), FromHex(iv), FromHex(encryptedData))
    IN  IF PadOk(plain) THEN Parse(Unpad(plain)) ELSE [ok |-> FALSE, wallets |-> <<>>]

NoFile == [count |-> 0, iv |-> <<>>, data |-> <<>>]

CryptStart ==
    [script |-> "create-wallets", pc |-> "start", wallets |-> <<>>,
     walletsFile |-> NoFile, passwordFile |-> <<>>, password |-> <<>>,
     result |-> [ok |-> FALSE, wallets |-> <<>>]]

InitCrypt == InitChain /\ sc = CryptStart

\* main of create-wallets
CreateWallets(walletCount, wallets, key, iv) ==
    /\ sc.script = "create-wallets" /\ sc.pc = "start"
    /\ IF walletCount <= 0 THEN sc' = [sc EXCEPT !.pc = "failed"]
       ELSE /\ Len(wallets) = walletCount
            /\ LET encryptionPassword == ToHex(key)
                   encryptedData == encrypt(wallets, encryptionPassword, iv)
               IN  sc' = [sc EXCEPT
                            !.pc = "written",
                            !.wallets = wallets,
                            !.walletsFile = [count |-> walletCount,
                                             iv |-> encryptedData.iv,
                                             data |-> encryptedData.encryptedData],
                            !.passwordFile = encryptionPassword]
    /\ ScriptOnly

\* the start of distribute-tokens and random-transactions: read the two
\* files and decrypt, with the key file of this run or with another key
LoadWallets(password) ==
    /\ sc.script = "create-wallets" /\ sc.pc = "written"
    /\ sc' = [sc EXCEPT
                 !.pc = "loaded",
                 !.password = password,
                 !.result = decrypt(sc.walletsFile.data, sc.walletsFile.iv, password)]
    /\ ScriptOnly

NextCrypt ==
    \/ \E walletCount \in WalletCounts, wallets \in GeneratedLists,
          key \in Keys, iv \in Ivs : CreateWallets(walletCount, wallets, key, iv)
    \/ \E key \in Keys : LoadWallets(ToHex(key))

SpecCrypt == InitCrypt /\ [][NextCrypt]_vars

\* C17: the count field of the wallets file is the length of the wallet
\* list; decrypting the file's data and iv with the content of the key file
\* gives the wallet list back, entry by entry; decrypting with another key
\* does not.
EncryptionRoundTrip ==
    /\ (sc.script = "create-wallets" /\ sc.pc \in {"written", "loaded"}) =>
          sc.walletsFile.count = Len(sc.wallets)
    /\ (sc.script = "create-wallets" /\ sc.pc = "loaded") =>
          IF sc.password = sc.passwordFile
          THEN sc.result.ok /\ sc.result.wallets = sc.wallets
          ELSE ~(sc.result.ok /\ sc.result.wallets = sc.wallets)

\* two wallets, encrypted over several blocks, loaded with the right key
C17_Witness ==
    /\ sc.script = "create-wallets" /\ sc.pc = "loaded"
    /\ Len(sc.wallets) = MaxGen
    /\ sc.wallets[1] # sc.wallets[2]
    /\ Len(sc.walletsFile.data) > 2 * 2 * BlockSize
    /\ sc.walletsFile.data # ToHex(Pad(Stringify(sc.wallets)))
    /\ sc.password = sc.passwordFile
    /\ sc.result.wallets = sc.wallets

(* --------------------- deploy script: verifyContract -------------------- *)

DefaultAttempts == 5
SleepMs == 30000

AttemptsArgs == 0..DefaultAttempts

\* what hre.run("verify:verify") does: it returns, or throws some error
VerifyOutcomes == {"verified", "not indexed", "timeout"}

NoVerify == [attempts |-> 0, i |-> 0, outcomes |-> <<>>, sleeps |-> 0, waited |-> 0,
             result |-> "none"]

VerifyStart(attempts) ==
    [script |-> "verifyContract", pc |-> "call", verify |-> NoVerify,
     attemptsArg |-> attempts]

InitVerify == InitChain /\ \E attempts \in AttemptsArgs : sc = VerifyStart(attempts)

\* a faulty test that also sleeps after the last attempt
MoreAttempts_always(i, attempts) == i < attempts

\* if (i < attempts - 1)
MoreAttempts(i, attempts) == i < attempts - 1

\* the call of verifyContract up to its first await
VerifyEnter(s, attempts) ==
    IF 0 < attempts
    THEN [s EXCEPT !.pc = "try", !.verify = [NoVerify EXCEPT !.attempts = attempts]]
    ELSE [s EXCEPT !.pc = "returned",
                   !.verify = [NoVerify EXCEPT !.attempts = attempts, !.result = "false"]]

verifyContract ==
    /\ sc.script = "verifyContract" /\ sc.pc = "call"
    /\ sc' = VerifyEnter(sc, sc.attemptsArg)
    /\ ScriptOnly

\* "await hre.run(...)" returns or throws: the rest of the pass
VerifyAttempt(outcome) ==
    /\ sc.pc = "try"
    /\ LET v == [sc.verify EXCEPT !.outcomes = Append(@, outcome)]
       IN  sc' = IF outcome = "verified"
                 THEN [sc EXCEPT !.pc = "returned", !.verify = [v EXCEPT !.result = "true"]]
                 ELSE IF MoreAttempts(v.i, v.attempts)
                 THEN [sc EXCEPT !.pc = "sleep", !.verify = v]
                 ELSE IF v.i + 1 < v.attempts
                 THEN [sc EXCEPT !.pc = "try", !.verify = [v EXCEPT !.i = @ + 1]]
                 ELSE [sc EXCEPT !.pc = "returned",
                                 !.verify = [v EXCEPT !.i = @ + 1, !.result = "false"]]
    /\ ScriptOnly

\* "await sleep(30000)" is over: the next pass of the loop
VerifySlept ==
    /\ sc.pc = "sleep"
    /\ LET v == [sc.verify EXCEPT !.sleeps = @ + 1, !.waited = @ + SleepMs, !.i = @ + 1]
       IN  sc' = IF v.i < v.attempts
                 THEN [sc EXCEPT !.pc = "try", !.verify = v]
                 ELSE [sc EXCEPT !.pc = "returned", !.verify = [v EXCEPT !.result = "false"]]
    /\ ScriptOnly

NextVerify ==
    \/ verifyContract
    \/ \E outcome \in VerifyOutcomes : VerifyAttempt(outcome)
    \/ VerifySlept

SpecVerify == InitVerify /\ [][NextVerify]_vars

FailedAttempts(outcomes) == {k \in DOMAIN outcomes : outcomes[k] # "verified"}

\* C18: verifyContract runs the verify task at most attempts times and not
\* again after a success; it returns true exactly after a successful run
\* and false exactly after attempts failed runs; and it has slept 30 s once
\* for every failed run but the attempts-th.
VerifyContractRetries ==
    sc.script = "verifyContract" /\ sc.pc # "call" =>
       LET v == sc.verify
           n == Len(v.outcomes)
           failed == Cardinality(FailedAttempts(v.outcomes))
       IN  /\ v.attempts = sc.attemptsArg
           /\ n <= v.attempts \/ (v.attempts <= 0 /\ n = 0)
           /\ \A k \in 1..(n - 1) : v.outcomes[k] # "verified"
           /\ v.result \in {"none", "true", "false"}
           /\ v.result # "none" <=> sc.pc = "returned"
           /\ v.result = "true" <=> (n > 0 /\ v.outcomes[n] = "verified")
           /\ v.result = "false" <=> (failed = n /\ n >= v.attempts)
           /\ v.waited = v.sleeps * SleepMs
           /\ v.sleeps = IF sc.pc = "sleep" THEN failed - 1
                          ELSE IF failed > 0 /\ failed = v.attempts THEN failed - 1
                          ELSE failed

\* the default five attempts all failed: four sleeps and the result false
C18_Witness ==
    /\ sc.script = "verifyContract" /\ sc.pc = "returned"
    /\ sc.verify.attempts = DefaultAttempts
    /\ Len(sc.verify.outcomes) = DefaultAttempts
    /\ sc.verify.result = "false"
    /\ sc.verify.sleeps = DefaultAttempts - 1

(* ----------------------------- deploy script ---------------------------- *)

\* contractAddress in token-config.json before the run: none, or the
\* address of an earlier deployment
OldAddresses == {0, 8}

\* the address of the contract this run deploys
NewAddresses == {9}

DeployAnswers == {"s", "S", "n", ""}

\* String.prototype.toLowerCase on the answers
ToLowerCase(answer) == IF answer = "S" THEN "s" ELSE answer

DeployStart(exists, address) ==
    [script |-> "deploy", pc |-> "start", exists |-> exists,
     config |-> [contractAddress |-> address], config0 |-> [contractAddress |-> address],
     answered |-> FALSE, answer |-> "", txs |-> <<>>, waiting |-> 0, tokenAddress |-> 0,
     verify |-> NoVerify]

InitDeploy ==
    /\ InitChain
    /\ \E exists \in BOOLEAN, address \in OldAddresses :
          sc = DeployStart(exists, IF exists THEN address ELSE 0)

\* a faulty test that takes a reverted deployment for a confirmed one
Confirmed_any(status) == status # "pending"

\* "await token.deploymentTransaction().wait()" returned
Confirmed(status) == status = "mined"

\* main up to the confirmation question
DeployLoad ==
    /\ sc.script = "deploy" /\ sc.pc = "start"
    /\ sc' = IF ~sc.exists THEN [sc EXCEPT !.pc = "exit1"] ELSE [sc EXCEPT !.pc = "ask"]
    /\ ScriptOnly

\* from the answer to "await Token.deploy(...)"; parseInt / parseUnits of
\* the config values run before the try block
DeployConfirm(confirm, argsOk, sendOk) ==
    /\ sc.script = "deploy" /\ sc.pc = "ask"
    /\ LET s == [sc EXCEPT !.answered = TRUE, !.answer = confirm]
       IN  sc' = IF ToLowerCase(confirm) # "s" THEN [s EXCEPT !.pc = "cancelled"]
                 ELSE IF ~argsOk THEN [s EXCEPT !.pc = "exit1"]
                 ELSE IF ~sendOk THEN [s EXCEPT !.pc = "failed"]
                 ELSE [s EXCEPT !.txs = Submit(@, "deploy"), !.pc = "wait",
                                !.waiting = Len(sc.txs) + 1]
    /\ ScriptOnly

\* the deployment transaction is mined: the address is written to the
\* config file, or the catch block runs
DeployWaited(address) ==
    /\ sc.script = "deploy" /\ sc.pc = "wait"
    /\ sc.txs[sc.waiting].status # "pending"
    /\ sc' = IF Confirmed(sc.txs[sc.waiting].status)
             THEN [sc EXCEPT !.tokenAddress = address,
                             !.config = [contractAddress |-> address],
                             !.pc = "wait5"]
             ELSE [sc EXCEPT !.pc = "failed"]
    /\ ScriptOnly

\* "await token.deploymentTransaction().wait(5)" returned or threw; then
\* verifyContract is called with its default attempts
DeployIndexed(ok) ==
    /\ sc.script = "deploy" /\ sc.pc = "wait5"
    /\ sc' = IF ok THEN VerifyEnter(sc, DefaultAttempts) ELSE [sc EXCEPT !.pc = "failed"]
    /\ ScriptOnly

\* verifyContract has returned: the closing log
DeployFinish ==
    /\ sc.script = "deploy" /\ sc.pc = "returned"
    /\ sc' = [sc EXCEPT !.pc = "done"]
    /\ ScriptOnly

DeployMine(ok) ==
    /\ sc.script = "deploy"
    /\ Pending(sc.txs) # {}
    /\ \E i \in Pending(sc.txs) :
          sc' = [sc EXCEPT !.txs[i].status = IF ok THEN "mined" ELSE "reverted"]
    /\ ScriptOnly

NextDeploy ==
    \/ DeployLoad
    \/ \E confirm \in DeployAnswers, argsOk \in BOOLEAN, sendOk \in BOOLEAN :
          DeployConfirm(confirm, argsOk, sendOk)
    \/ \E address \in NewAddresses : DeployWaited(address)
    \/ \E ok \in BOOLEAN : DeployIndexed(ok)
    \/ \E outcome \in VerifyOutcomes : VerifyAttempt(outcome)
    \/ VerifySlept
    \/ DeployFinish
    \/ \E ok \in BOOLEAN : DeployMine(ok)

SpecDeploy == InitDeploy /\ [][NextDeploy]_vars

DeployAbandoned == sc.pc \in {"start", "ask", "exit1", "cancelled", "wait"}

\* C19 as stated: when the user has answered anything other than "s", the
\* config file is as it was before the run.
C19_OnlyLowercaseS ==
    (sc.script = "deploy" /\ sc.answered /\ sc.answer # "s") => sc.config = sc.config0

\* C19: the config file differs from what it was before the run only if it
\* existed, the answer was "s" in either case of the letter and the
\* deployment transaction is mined, and then it holds the address of the new
\* contract; nothing that follows, a failed verification included, takes
\* the address out again.
DeployWritesAfterConfirmation ==
    sc.script = "deploy" =>
       /\ sc.config # sc.config0 =>
             /\ sc.exists
             /\ ToLowerCase(sc.answer) = "s"
             /\ sc.waiting \in DOMAIN sc.txs
             /\ sc.txs[sc.waiting].status = "mined"
             /\ sc.config.contractAddress = sc.tokenAddress
       /\ DeployAbandoned => sc.config = sc.config0
       /\ sc.tokenAddress # 0 => sc.config.contractAddress = sc.tokenAddress
       /\ sc.pc \in {"wait5", "try", "sleep", "returned", "done"} =>
             sc.config.contractAddress \in NewAddresses

\* an upper-case "S" was answered, the deployment was confirmed and every
\* verification attempt failed: the new address is in the config file
C19_Witness ==
    /\ sc.script = "deploy" /\ sc.pc = "done"
    /\ sc.answer = "S"
    /\ sc.verify.result = "false"
    /\ sc.config0.contractAddress \notin NewAddresses
    /\ sc.config.contractAddress \in NewAddresses

(* ---------------------- random-transactions script ---------------------- *)

MaxSimWallets == 2
MaxCount == 2
MaxSourceAttempts == 50
MinAmount == 1

SimBalances == {0, 1, 2}

SimStart(n, bal, count, hasIsZero) ==
    [script |-> "random-transactions", pc |-> "start", n |-> n, bal |-> bal,
     transactionCount |-> count, hasIsZero |-> hasIsZero, i |-> 0, attempts |-> 0,
     from |-> 0, fromBalance |-> 0, to |-> 0, txs |-> <<>>, waiting |-> 0,
     transactions |-> <<>>, successCount |-> 0, failCount |-> 0, written |-> FALSE]

\* the value balanceOf resolves to has an isZero method (a BigNumber of
\* ethers 5) or has none (a bigint of ethers 6, which the hardhat-toolbox 5
\* of package.json installs)
InitSim ==
    /\ InitChain
    /\ \E n \in 1..MaxSimWallets, count \in 1..MaxCount, hasIsZero \in BOOLEAN :
         \E bal \in [1..n -> SimBalances] : sc = SimStart(n, bal, count, hasIsZero)

\* maxPossibleAmount >= minAmount, with maxPossibleAmount 95% of the balance
\* (maxAmount is above every balance here)
Sufficient(balance) == balance * 95 >= MinAmount * 100

\* the end of a pass: the next pass, or after the last one the report
NextPass(s) ==
    LET t == [s EXCEPT !.i = @ + 1, !.attempts = 0, !.waiting = 0]
    IN  IF t.i < t.transactionCount THEN [t EXCEPT !.pc = "source"]
        ELSE [t EXCEPT !.pc = "done", !.written = TRUE]

Skipped(s) == NextPass([s EXCEPT !.failCount = @ + 1])

Entry(s, status) == [from |-> s.from, to |-> s.to, amount |-> MinAmount, status |-> status]

\* the balance check before the simulation, and the confirmation
SimConfirm(confirm) ==
    /\ sc.script = "random-transactions" /\ sc.pc = "start"
    /\ sc' = IF \A w \in 1..sc.n : sc.bal[w] = 0 THEN [sc EXCEPT !.pc = "exit1"]
             ELSE IF ToLowerCase(confirm) # "s" THEN [sc EXCEPT !.pc = "cancelled"]
             ELSE [sc EXCEPT !.pc = "source"]
    /\ ScriptOnly

\* one pass of the source-selection loop: getRandomElement, balanceOf,
\* attempts++, the attempts > 50 break, fromBalance.isZero()
SimPickSource(w) ==
    /\ sc.script = "random-transactions" /\ sc.pc = "source"
    /\ LET s == [sc EXCEPT !.from = w, !.fromBalance = sc.bal[w], !.attempts = @ + 1]
       IN  sc' = IF ~sc.hasIsZero THEN [s EXCEPT !.pc = "caught"]
                 ELSE IF s.attempts > MaxSourceAttempts
                 THEN (IF s.fromBalance = 0 THEN Skipped(s) ELSE [s EXCEPT !.pc = "destination"])
                 ELSE IF s.fromBalance = 0 THEN s
                 ELSE [s EXCEPT !.pc = "destination"]
    /\ ScriptOnly

\* one pass of the destination-selection loop; with a destination other
\* than the source, the rest of the pass up to "await transfer(...)"
SimPickDestination(w, sendOk) ==
    /\ sc.script = "random-transactions" /\ sc.pc = "destination"
    /\ LET s == [sc EXCEPT !.to = w]
       IN  sc' = IF w = sc.from THEN s
                 ELSE IF ~Sufficient(sc.fromBalance) THEN Skipped(s)
                 ELSE IF sendOk
                 THEN [s EXCEPT !.txs = Submit(@, "transfer"), !.pc = "wait",
                                !.waiting = Len(sc.txs) + 1]
                 ELSE NextPass([s EXCEPT !.transactions = Append(@, Entry(s, "failed")),
                                         !.failCount = @ + 1])
    /\ ScriptOnly

\* "await tx.wait()" returns or throws, then the pause before the next pass
SimWaited ==
    /\ sc.script = "random-transactions" /\ sc.pc = "wait"
    /\ sc.txs[sc.waiting].status # "pending"
    /\ sc' = IF sc.txs[sc.waiting].status = "mined"
             THEN NextPass([sc EXCEPT !.transactions = Append(@, Entry(sc, "success")),
                                      !.successCount = @ + 1])
             ELSE NextPass([sc EXCEPT !.transactions = Append(@, Entry(sc, "failed")),
                                      !.failCount = @ + 1])
    /\ ScriptOnly

\* the chain mines the transfer: the amount moves, or the transfer reverts
SimMine(ok) ==
    /\ sc.script = "random-transactions"
    /\ Pending(sc.txs) # {}
    /\ \E i \in Pending(sc.txs) :
          sc' = IF ok
                THEN [sc EXCEPT !.txs[i].status = "mined",
                                !.bal = [@ EXCEPT ![sc.from] = @ - MinAmount,
                                                  ![sc.to] = sc.bal[sc.to] + MinAmount]]
                ELSE [sc EXCEPT !.txs[i].status = "reverted"]
    /\ ScriptOnly

NextSim ==
    \/ \E confirm \in Answers : SimConfirm(confirm)
    \/ \E w \in 1..MaxSimWallets : w <= sc.n /\ SimPickSource(w)
    \/ \E w \in 1..MaxSimWallets, sendOk \in BOOLEAN : w <= sc.n /\ SimPickDestination(w, sendOk)
    \/ SimWaited
    \/ \E ok \in BOOLEAN : SimMine(ok)

\* Math.random() does not return the same element for ever: a destination
\* other than the source is picked if one exists
PickOther ==
    \E w \in 1..MaxSimWallets, sendOk \in BOOLEAN :
       w <= sc.n /\ w # sc.from /\ SimPickDestination(w, sendOk)

SpecSim ==
    /\ InitSim
    /\ [][NextSim]_vars
    /\ WF_vars(NextSim)
    /\ SF_vars(PickOther)

\* C20: once the simulation is confirmed it goes through transactionCount
\* passes of the loop and ends with the report written.
C20_SimulationTerminates ==
    (sc.script = "random-transactions" /\ sc.pc = "source")
       ~> (sc.pc = "done" /\ sc.written /\ sc.i = sc.transactionCount)

====
